---- MODULE Spec2Model ----
(***************************************************************************)
(* NotesApp_AI: the document store routes (pages.routes.ts), the AI routes *)
(* (ai.routes.ts) and the client editing session (Editor.tsx, the page     *)
(* component and FloatingAI) as state machines.                            *)
(*                                                                         *)
(* The specifications share the variables:                                 *)
(*   Spec        - the /pages routes acting on the document store          *)
(*   AiSpec      - the /ai routes acting on the store and the provider     *)
(*   TagSpec     - /ai/tags applied to a range of raw model outputs        *)
(*   SessionSpec - one editing session: debounce timers, update requests   *)
(*                 in flight, the store's copy of the open page            *)
(*   AssistSpec  - the editing session with the AI panel and FloatingAI    *)
(*   ToolbarSpec - a stored page, its auto-save and the three AI buttons   *)
(*   ClickSpec   - a stored page, edits and the four AI actions            *)
(*   ExtractSpec - text extraction applied to a range of block trees       *)
(*   ConnSpec    - concurrent calls of connectDB                           *)
(*   RaceSpec    - route handlers interleaved at their awaits              *)
(*                                                                         *)
(* Strings are sequences of one-character strings, so that trim, length    *)
(* and split are computed as the code computes them.                       *)
(***************************************************************************)
EXTENDS Integers, Sequences, FiniteSets, TLC

VARIABLES
    pages,          \* the Page collection: page id -> document or NoPage
    nextId,         \* the next fresh _id (ids are never reused)
    providerCalls,  \* number of openai.chat.completions.create calls made
    lastReq,        \* the request served by the last step
    lastResp,       \* the response (status + JSON envelope) of that request
    lastOutcome,    \* what the provider did when that request called it
    mounted,        \* the page component and its Editor are mounted
    blocks,         \* editor.document
    title,          \* the page component's title state
    timers,         \* pending setTimeout callbacks
    saveTimerRef,   \* Editor's saveTimerRef.current (0 = null)
    titleSaveTimer, \* the page component's titleSaveTimer.current (0 = null)
    nextTimerId,    \* the id the next setTimeout returns
    inflight,       \* update (PATCH) requests issued and not yet served
    nextReq,        \* issue number of the next update request
    anyFailed,      \* history: some update request failed
    liveBlocksRef,  \* the page component's liveBlocksRef.current
    aiPanel,        \* the page component's aiPanel state
    genState,       \* FloatingAI's generate mutation (isPending and its request)
    impState,       \* the page component's improve mutation (isPending and its request)
    sumState,       \* the page component's summarize mutation
    tagState,       \* the page component's generateTags mutation
    isSavingTitle,  \* the page component's isSavingTitle state
    lastToast,      \* the toast.error message of the last handler that ended
    cached,         \* global.mongoose: conn and promise (0 = null)
    promises,       \* the promises mongoose.connect returned, in call order
    connectors,     \* each connectDB call: its position and what it returned
    handlers        \* the requests the server has started: position, locals, response

storeVars == <<pages, nextId, providerCalls, lastReq, lastResp, lastOutcome>>
sessionVars == <<mounted, blocks, title, timers, saveTimerRef, titleSaveTimer,
                 nextTimerId, inflight, nextReq, anyFailed,
                 liveBlocksRef, aiPanel, genState, impState,
                 sumState, tagState, isSavingTitle, lastToast>>
connVars == <<cached, promises, connectors>>
vars == <<pages, nextId, providerCalls, lastReq, lastResp, lastOutcome, mounted, blocks, title,
          timers, saveTimerRef, titleSaveTimer, nextTimerId, inflight, nextReq,
          anyFailed, liveBlocksRef, aiPanel, genState, impState,
          sumState, tagState, isSavingTitle, lastToast,
          cached, promises, connectors, handlers>>

---------------------------------------------------------------------------
(* Bounds *)

MaxPages == 1
MaxProviderCalls == 1
\* setTimeout calls made in one editing session
MaxTimers == 2
\* blocks in the editor's document
MaxBlocks == 2
\* milliseconds that pass in one step of the clock
TickMs == 750

Users == {"alice", "bob"}
PageIds == 1..MaxPages
\* ids a request may carry: 0 stands for a missing or empty id, MaxPages + 1
\* for a well-formed id that names no document
RequestIds == 0..(MaxPages + 1)

---------------------------------------------------------------------------
(* Strings *)

MinOf(S) == CHOOSE m \in S : \A n \in S : m <= n
MaxOf(S) == CHOOSE m \in S : \A n \in S : n <= m

Rep(ch, n) == [i \in 1..n |-> ch]

IsSpace(ch) == ch \in {" ", "\n"}

\* String.prototype.trim
Trim(s) ==
    LET keep == {i \in 1..Len(s) : ~IsSpace(s[i])}
    IN  IF keep = {} THEN <<>> ELSE SubSeq(s, MinOf(keep), MaxOf(keep))

\* null for the nullable string fields; no string has a multi-character element
Null == <<"null">>
\* a JSON value that is not a string (absent, number, object, ...)
NotAString == <<"nonstring">>

Untitled == <<"U", "n", "t", "i", "t", "l", "e", "d">>

---------------------------------------------------------------------------
(* The Page model *)

NoPage == [absent |-> TRUE]

PageFields == {"userId", "title", "icon", "coverImage", "content", "tags",
               "summary", "isFavorite", "isArchived"}

\* Page.create with the schema defaults
NewPage(uid, t, ic) ==
    [userId |-> uid, title |-> t, icon |-> ic, coverImage |-> Null,
     content |-> <<>>, tags |-> <<>>, summary |-> Null,
     isFavorite |-> FALSE, isArchived |-> FALSE]

Exists(ps, id) == id \in PageIds /\ ps[id] # NoPage

FindOneAnyOwner(ps, id, uid) == IF Exists(ps, id) THEN ps[id] ELSE NoPage

\* Page.findOne({ _id: pageId, userId: user.id })
FindOne(ps, id, uid) ==
    IF Exists(ps, id) /\ ps[id].userId = uid THEN ps[id] ELSE NoPage

\* Page.findByIdAndUpdate(pageId, update): no owner in the filter, no upsert
FindByIdAndUpdate(ps, id, field, val) ==
    IF Exists(ps, id) THEN [ps EXCEPT ![id] = [@ EXCEPT ![field] = val]] ELSE ps

SetFieldsReplacing(doc, has, val) ==
    [f \in PageFields |-> IF f \in {"userId", "isFavorite", "isArchived"} THEN doc[f]
                           ELSE val[f]]

\* update operators: $set of the validated fields on the matched document
SetFields(doc, has, val) ==
    [f \in PageFields |-> IF f \in has THEN val[f] ELSE doc[f]]

---------------------------------------------------------------------------
(* Responses *)

NoData == [none |-> TRUE]

Ok(status, data) ==
    [status |-> status, success |-> TRUE, error |-> "", message |-> "", data |-> data]
OkMessage(msg) ==
    [status |-> 200, success |-> TRUE, error |-> "", message |-> msg, data |-> NoData]
Fail(status, err) ==
    [status |-> status, success |-> FALSE, error |-> err, message |-> "", data |-> NoData]

NotFound == Fail(404, "Page not found")

NoBody == [has |-> {}, val |-> NoData]
NoReq == [route |-> "none", caller |-> "none", id |-> 0, body |-> NoBody, dbOk |-> TRUE]

Req(route, caller, id, body, dbOk) ==
    [route |-> route, caller |-> caller, id |-> id, body |-> body, dbOk |-> dbOk]

\* a handler's outcome: the store after it and the response it returns
Outcome(ps, resp) == [pages |-> ps, resp |-> resp]

---------------------------------------------------------------------------
(* authMiddleware, applied to every /pages and /ai route.  A request's      *)
(* caller is the user of its session, Anonymous when auth.api.getSession    *)
(* resolves to null, LookupFails when auth.api.getSession rejects.          *)

Anonymous == "anonymous"
LookupFails == "lookup-fails"
Callers == Users \cup {Anonymous, LookupFails}

Unauthorized == Fail(401, "Unauthorized. Please log in to continue.")

\* an exception that leaves the route: no handler of the application answers
\* it, and the framework's reply is a 500 that carries no JSON envelope
\* (no error property)
Uncaught == [status |-> 500, success |-> FALSE, error |-> "", message |-> "", data |-> NoData]

\* the request ended in the middleware: nothing stored, no provider call
Rejected(ps, resp) == [pages |-> ps, resp |-> resp, calls |-> 0]

AuthMiddlewareNoCheck(caller, ps, next) ==
    IF caller = LookupFails THEN Rejected(ps, Uncaught)
    ELSE next

\* authMiddleware; next is the outcome of the route handler
AuthMiddleware(caller, ps, next) ==
    IF caller = LookupFails THEN Rejected(ps, Uncaught)
    ELSE IF caller = Anonymous THEN Rejected(ps, Unauthorized)
    ELSE next

---------------------------------------------------------------------------
(* /pages handlers: each maps (store, caller, request) to an Outcome.       *)
(* dbOk = FALSE is connectDB() or the query throwing, caught by the handler *)

\* a JSON body: the keys present and their values
Body(has, val) == [has |-> has, val |-> val]

T1 == <<"T">>
\* a BlockNote paragraph: inline content items and child blocks
Inline(text) == [type |-> "text", text |-> text]
Para(text) ==
    [type |-> "paragraph",
     content |-> IF text = <<>> THEN <<>> ELSE <<Inline(text)>>,
     children |-> <<>>]

CreateBodies ==
    { Body({}, NewPage("none", Untitled, Null)) }

PatchBodies ==
    { Body({"isFavorite", "isArchived", "userId"},
           [NewPage("bob", Untitled, Null) EXCEPT !.isFavorite = TRUE, !.isArchived = TRUE]),
      Body({"title", "isFavorite"},
           [NewPage("none", T1, Null) EXCEPT !.isFavorite = TRUE]) }

\* POST /pages
CreateHandler(ps, id, uid, body, dbOk) ==
    IF ~dbOk THEN Outcome(ps, Fail(500, "Failed to create page"))
    ELSE LET t == IF "title" \in body.has THEN body.val.title ELSE Untitled
             ic == IF "icon" \in body.has THEN body.val.icon ELSE Null
             page == NewPage(uid, t, ic)
         IN  Outcome([ps EXCEPT ![id] = page], Ok(201, page))

\* GET /pages/:id
GetHandler(ps, id, uid, dbOk) ==
    IF ~dbOk THEN Outcome(ps, Fail(500, "Failed to fetch page"))
    ELSE LET page == FindOne(ps, id, uid)
         IN  IF page = NoPage THEN Outcome(ps, NotFound)
             ELSE Outcome(ps, Ok(200, page))

allowedFields == {"title", "icon", "coverImage", "content", "tags", "summary"}

PatchHandlerNoAllowList(ps, id, uid, body, dbOk) ==
    IF ~dbOk THEN Outcome(ps, Fail(500, "Failed to update page"))
    ELSE LET validated == body.has
         IN  IF validated = {} THEN Outcome(ps, Fail(400, "No valid fields to update"))
             ELSE IF FindOne(ps, id, uid) = NoPage THEN Outcome(ps, NotFound)
             ELSE LET page == SetFields(ps[id], validated, body.val)
                  IN  Outcome([ps EXCEPT ![id] = page], Ok(200, page))

\* PATCH /pages/:id
PatchHandler(ps, id, uid, body, dbOk) ==
    IF ~dbOk THEN Outcome(ps, Fail(500, "Failed to update page"))
    ELSE LET validated == allowedFields \cap body.has
         IN  IF validated = {} THEN Outcome(ps, Fail(400, "No valid fields to update"))
             ELSE IF FindOne(ps, id, uid) = NoPage THEN Outcome(ps, NotFound)
             ELSE LET page == SetFields(ps[id], validated, body.val)
                  IN  Outcome([ps EXCEPT ![id] = page], Ok(200, page))

\* PATCH /pages/:id/favorite
FavoriteHandler(ps, id, uid, dbOk) ==
    IF ~dbOk THEN Outcome(ps, Fail(500, "Failed to toggle favorite"))
    ELSE LET existingPage == FindOne(ps, id, uid)
         IN  IF existingPage = NoPage THEN Outcome(ps, NotFound)
             ELSE LET fav == ~existingPage.isFavorite
                  IN  Outcome([ps EXCEPT ![id].isFavorite = fav],
                              Ok(200, [isFavorite |-> fav]))

ArchiveHandlerKeepsFavorite(ps, id, uid, dbOk) ==
    IF ~dbOk THEN Outcome(ps, Fail(500, "Failed to archive page"))
    ELSE LET existingPage == FindOne(ps, id, uid)
         IN  IF existingPage = NoPage THEN Outcome(ps, NotFound)
             ELSE LET arch == ~existingPage.isArchived
                      fav == existingPage.isFavorite
                  IN  Outcome([ps EXCEPT ![id].isArchived = arch, ![id].isFavorite = fav],
                              Ok(200, [isArchived |-> arch]))

\* PATCH /pages/:id/archive
ArchiveHandler(ps, id, uid, dbOk) ==
    IF ~dbOk THEN Outcome(ps, Fail(500, "Failed to archive page"))
    ELSE LET existingPage == FindOne(ps, id, uid)
         IN  IF existingPage = NoPage THEN Outcome(ps, NotFound)
             ELSE LET arch == ~existingPage.isArchived
                      fav == IF arch THEN FALSE ELSE existingPage.isFavorite
                  IN  Outcome([ps EXCEPT ![id].isArchived = arch, ![id].isFavorite = fav],
                              Ok(200, [isArchived |-> arch]))

\* DELETE /pages/:id
DeleteHandler(ps, id, uid, dbOk) ==
    IF ~dbOk THEN Outcome(ps, Fail(500, "Failed to delete page"))
    ELSE IF FindOne(ps, id, uid) = NoPage THEN Outcome(ps, NotFound)
    ELSE Outcome([ps EXCEPT ![id] = NoPage], OkMessage("Page deleted permanently"))

\* the handler a request on /pages/:id is routed to
Serve(ps, req) ==
    CASE req.route = "get" -> GetHandler(ps, req.id, req.caller, req.dbOk)
      [] req.route = "patch" -> PatchHandler(ps, req.id, req.caller, req.body, req.dbOk)
      [] req.route = "favorite" -> FavoriteHandler(ps, req.id, req.caller, req.dbOk)
      [] req.route = "archive" -> ArchiveHandler(ps, req.id, req.caller, req.dbOk)
      [] req.route = "delete" -> DeleteHandler(ps, req.id, req.caller, req.dbOk)

IdRoutes == {"get", "patch", "favorite", "archive", "delete"}

---------------------------------------------------------------------------
(* /ai handlers.  A body is the parsed JSON (parsed = FALSE: c.req.json()   *)
(* throws); pageId 0 is a missing, empty or non-string id.  The provider's  *)
(* outcome is a completion text or a thrown error; dbOk = FALSE is          *)
(* connectDB() or the update throwing.  Each handler maps these to the      *)
(* store after it, the response, and the number of provider calls made.     *)

SummarizeMinLen == 20
TagsMinLen == 10
ImproveMinLen == 5
\* setTimeout(..., 1500) in Editor.handleChange and in handleTitleChange
DebounceMs == 1500
TitleDebounceMs == 1500

AiBody(parsed, pageId, content, selection, prompt) ==
    [parsed |-> parsed, pageId |-> pageId, content |-> content,
     selection |-> selection, prompt |-> prompt]

\* a body c.req.json() cannot parse
MalformedBody == AiBody(FALSE, 0, NotAString, NotAString, NotAString)

\* typeof v === "string" ? v : ""
StringOrEmpty(v) == IF v = NotAString THEN <<>> ELSE v

\* the provider was not called
NoOutcome == [kind |-> "none", text |-> <<>>, status |-> 0, message |-> <<>>]
Completion(text) == [kind |-> "text", text |-> text, status |-> 200, message |-> <<>>]
\* openai.chat.completions.create rejects: the HTTP status the provider
\* answered (429: rate limited) and the message of the Error
Thrown(status, message) ==
    [kind |-> "throw", text |-> <<>>, status |-> status, message |-> message]

\* String.prototype.includes
Includes(s, sub) ==
    \E i \in 1..(Len(s) - Len(sub) + 1) : SubSeq(s, i, i + Len(sub) - 1) = sub

\* error.message.includes("rate limit")
MentionsRateLimit(outcome) ==
    Includes(outcome.message, <<"r", "a", "t", "e", " ", "l", "i", "m", "i", "t">>)

\* messages of provider errors: a rate-limit rejection worded in lower case,
\* one worded "Rate limit exceeded", and a failure that is not a rate limit
LowerRateLimitMessage == <<"r", "a", "t", "e", " ", "l", "i", "m", "i", "t">>
UpperRateLimitMessage ==
    <<"R", "a", "t", "e", " ", "l", "i", "m", "i", "t", " ",
      "e", "x", "c", "e", "e", "d", "e", "d">>
OtherMessage == <<"t", "i", "m", "e", "o", "u", "t">>
RateLimitLower == Thrown(429, LowerRateLimitMessage)
RateLimitUpper == Thrown(429, UpperRateLimitMessage)
ProviderDown == Thrown(503, OtherMessage)

AiOutcome(ps, resp, calls) == [pages |-> ps, resp |-> resp, calls |-> calls]

RateLimited == Fail(429, "AI rate limit reached. Please try again in a moment.")

\* the catch block of every /ai handler
AiCatch(isRateLimit, generic) == IF isRateLimit THEN RateLimited ELSE Fail(500, generic)

TooShortNoTrim(text, min) == Len(text) < min

\* text.trim().length < min
TooShort(text, min) == Len(Trim(text)) < min

\* response.choices[0]?.message?.content?.trim() || ""
CompletionText(outcome) == IF outcome.text = Null THEN <<>> ELSE Trim(outcome.text)

SummarizeHandlerSwallowingWriteError(ps, body, outcome, dbOk) ==
    IF ~body.parsed THEN AiOutcome(ps, AiCatch(FALSE, "Failed to generate summary"), 0)
    ELSE LET pageId == body.pageId
             content == StringOrEmpty(body.content)
         IN  IF pageId = 0 \/ content = <<>>
             THEN AiOutcome(ps, Fail(400, "pageId and content are required"), 0)
             ELSE IF TooShort(content, SummarizeMinLen)
             THEN AiOutcome(ps,
                     Fail(400, "Note content is too short to summarize. Add more content!"), 0)
             ELSE IF outcome.kind = "throw"
             THEN AiOutcome(ps, AiCatch(MentionsRateLimit(outcome), "Failed to generate summary"), 1)
             ELSE LET summary == CompletionText(outcome)
                  IN  IF summary = <<>>
                      THEN AiOutcome(ps, Fail(500, "AI returned an empty response"), 1)
                      ELSE IF ~dbOk
                      THEN AiOutcome(ps, Ok(200, [result |-> summary]), 1)
                      ELSE AiOutcome(FindByIdAndUpdate(ps, pageId, "summary", summary),
                                     Ok(200, [result |-> summary]), 1)

\* POST /ai/summarize
SummarizeHandler(ps, body, outcome, dbOk) ==
    IF ~body.parsed THEN AiOutcome(ps, AiCatch(FALSE, "Failed to generate summary"), 0)
    ELSE LET pageId == body.pageId
             content == StringOrEmpty(body.content)
         IN  IF pageId = 0 \/ content = <<>>
             THEN AiOutcome(ps, Fail(400, "pageId and content are required"), 0)
             ELSE IF TooShort(content, SummarizeMinLen)
             THEN AiOutcome(ps,
                     Fail(400, "Note content is too short to summarize. Add more content!"), 0)
             ELSE IF outcome.kind = "throw"
             THEN AiOutcome(ps, AiCatch(MentionsRateLimit(outcome), "Failed to generate summary"), 1)
             ELSE LET summary == CompletionText(outcome)
                  IN  IF summary = <<>>
                      THEN AiOutcome(ps, Fail(500, "AI returned an empty response"), 1)
                      ELSE IF ~dbOk
                      THEN AiOutcome(ps, AiCatch(FALSE, "Failed to generate summary"), 1)
                      ELSE AiOutcome(FindByIdAndUpdate(ps, pageId, "summary", summary),
                                     Ok(200, [result |-> summary]), 1)

\* selection || content
TextToImprove(body) ==
    LET selection == body.selection
    IN  IF selection # NotAString /\ selection # <<>> THEN selection
        ELSE StringOrEmpty(body.content)

ImproveHandlerPersisting(ps, body, outcome, dbOk) ==
    IF ~body.parsed THEN AiOutcome(ps, AiCatch(FALSE, "Failed to improve text"), 0)
    ELSE IF TooShort(TextToImprove(body), ImproveMinLen)
    THEN AiOutcome(ps, Fail(400, "Please provide more text to improve."), 0)
    ELSE IF outcome.kind = "throw"
    THEN AiOutcome(ps, AiCatch(MentionsRateLimit(outcome), "Failed to improve text"), 1)
    ELSE LET improved == CompletionText(outcome)
         IN  IF improved = <<>>
             THEN AiOutcome(ps, Fail(500, "AI returned an empty response"), 1)
             ELSE AiOutcome(FindByIdAndUpdate(ps, body.pageId, "content", <<Para(improved)>>),
                            Ok(200, [result |-> improved]), 1)

\* POST /ai/improve
ImproveHandler(ps, body, outcome, dbOk) ==
    IF ~body.parsed THEN AiOutcome(ps, AiCatch(FALSE, "Failed to improve text"), 0)
    ELSE IF TooShort(TextToImprove(body), ImproveMinLen)
    THEN AiOutcome(ps, Fail(400, "Please provide more text to improve."), 0)
    ELSE IF outcome.kind = "throw"
    THEN AiOutcome(ps, AiCatch(MentionsRateLimit(outcome), "Failed to improve text"), 1)
    ELSE LET improved == CompletionText(outcome)
         IN  IF improved = <<>>
             THEN AiOutcome(ps, Fail(500, "AI returned an empty response"), 1)
             ELSE AiOutcome(ps, Ok(200, [result |-> improved]), 1)

\* POST /ai/generate
GenerateHandler(ps, body, outcome, dbOk) ==
    IF ~body.parsed THEN AiOutcome(ps, AiCatch(FALSE, "Failed to generate content"), 0)
    ELSE LET userPrompt == StringOrEmpty(body.prompt)
         IN  IF Trim(userPrompt) = <<>>
             THEN AiOutcome(ps, Fail(400, "Prompt is required"), 0)
             ELSE IF outcome.kind = "throw"
             THEN AiOutcome(ps, AiCatch(MentionsRateLimit(outcome), "Failed to generate content"), 1)
             ELSE LET generated == CompletionText(outcome)
                  IN  IF generated = <<>>
                      THEN AiOutcome(ps, Fail(500, "AI returned an empty response"), 1)
                      ELSE AiOutcome(ps, Ok(200, [result |-> generated]), 1)

---------------------------------------------------------------------------
(* POST /ai/tags: recovering a tag list from the raw completion.            *)
(* Raw completions are over letters, digits, whitespace and the characters  *)
(* [ ] " ' , . * - and the backtick (no backslash, no braces), on which the *)
(* JSON array parser below accepts exactly what JSON.parse accepts.         *)

Digits == {"0", "1", "2", "3", "4", "5", "6", "7", "8", "9"}
UpperCase == <<"A", "B", "C", "H", "N", "R", "T">>
LowerCase == <<"a", "b", "c", "h", "n", "r", "t">>

\* String.prototype.toLowerCase, one character
LowerChar(ch) ==
    IF \E i \in 1..Len(UpperCase) : UpperCase[i] = ch
    THEN LowerCase[CHOOSE i \in 1..Len(UpperCase) : UpperCase[i] = ch]
    ELSE ch

ToLowerCase(s) == [i \in 1..Len(s) |-> LowerChar(s[i])]

\* first index >= from at which ch occurs, 0 if none
IndexOfFrom(s, ch, from) ==
    LET at == {k \in from..Len(s) : s[k] = ch}
    IN  IF at = {} THEN 0 ELSE MinOf(at)

\* first index >= from that is past the whitespace starting at from
SkipSpace(s, from) ==
    LET stop == {k \in from..Len(s) : ~IsSpace(s[k])}
    IN  IF stop = {} THEN Len(s) + 1 ELSE MinOf(stop)

JsonMatchGreedy(raw) ==
    LET open == IndexOfFrom(raw, "[", 1)
        closes == {k \in (open + 1)..Len(raw) : raw[k] = "]"}
    IN  IF open = 0 \/ closes = {} THEN <<>> ELSE SubSeq(raw, open, MaxOf(closes))

\* rawResponse.match(/\[[\s\S]*?\]/): from the first "[" to the first "]" after it
JsonMatch(raw) ==
    LET open == IndexOfFrom(raw, "[", 1)
        close == IF open = 0 THEN 0 ELSE IndexOfFrom(raw, "]", open + 1)
    IN  IF open = 0 \/ close = 0 THEN <<>> ELSE SubSeq(raw, open, close)

ParseError == [ok |-> FALSE, elems |-> <<>>]

IsLiteralAt(s, i, word) ==
    i + Len(word) - 1 <= Len(s) /\ SubSeq(s, i, i + Len(word) - 1) = word

\* first index >= from that is past the digits starting at from
DigitsEnd(s, from) ==
    LET stop == {k \in from..Len(s) : s[k] \notin Digits}
    IN  IF stop = {} THEN Len(s) + 1 ELSE MinOf(stop)

\* the index after the JSON number starting at i, 0 if there is none:
\* -? (0 | [1-9][0-9]*) (. [0-9]+)? ([eE] [+-]? [0-9]+)?
JsonNumberEnd(s, i) ==
    LET AtLeastOneDigit(from) ==
            IF DigitsEnd(s, from) > from THEN DigitsEnd(s, from) ELSE 0
        IntEnd(a) ==
            IF a > Len(s) \/ s[a] \notin Digits THEN 0
            ELSE IF s[a] = "0" THEN a + 1
            ELSE DigitsEnd(s, a)
        FracEnd(intEnd) ==
            IF intEnd = 0 THEN 0
            ELSE IF intEnd <= Len(s) /\ s[intEnd] = "." THEN AtLeastOneDigit(intEnd + 1)
            ELSE intEnd
        ExpEnd(fracEnd) ==
            IF fracEnd = 0 THEN 0
            ELSE IF fracEnd <= Len(s) /\ s[fracEnd] \in {"e", "E"}
            THEN AtLeastOneDigit(IF fracEnd + 1 <= Len(s) /\ s[fracEnd + 1] \in {"+", "-"}
                                 THEN fracEnd + 2 ELSE fracEnd + 1)
            ELSE fracEnd
    IN  ExpEnd(FracEnd(IntEnd(IF s[i] = "-" THEN i + 1 ELSE i)))

\* one JSON value starting at i: [ok, val, next]; a value that is not a
\* string parses to NotAString
JsonValueAt(s, i) ==
    IF i > Len(s) THEN [ok |-> FALSE, val |-> <<>>, next |-> i]
    ELSE IF s[i] = "\""
    THEN LET close == IndexOfFrom(s, "\"", i + 1)
         IN  IF close = 0 \/ \E k \in (i + 1)..(close - 1) : s[k] = "\n"
             THEN [ok |-> FALSE, val |-> <<>>, next |-> i]
             ELSE [ok |-> TRUE, val |-> SubSeq(s, i + 1, close - 1), next |-> close + 1]
    ELSE IF s[i] \in Digits \cup {"-"}
    THEN LET next == JsonNumberEnd(s, i)
         IN  IF next = 0
             THEN [ok |-> FALSE, val |-> <<>>, next |-> i]
             ELSE [ok |-> TRUE, val |-> NotAString, next |-> next]
    ELSE IF IsLiteralAt(s, i, <<"n", "u", "l", "l">>)
    THEN [ok |-> TRUE, val |-> NotAString, next |-> i + 4]
    ELSE IF IsLiteralAt(s, i, <<"t", "r", "u", "e">>)
    THEN [ok |-> TRUE, val |-> NotAString, next |-> i + 4]
    ELSE IF IsLiteralAt(s, i, <<"f", "a", "l", "s", "e">>)
    THEN [ok |-> TRUE, val |-> NotAString, next |-> i + 5]
    ELSE [ok |-> FALSE, val |-> <<>>, next |-> i]

RECURSIVE JsonElements(_, _, _)
\* the elements of a JSON array body from position i on, a value expected at i
JsonElements(s, i, acc) ==
    LET v == JsonValueAt(s, SkipSpace(s, i))
        after == SkipSpace(s, v.next)
    IN  IF ~v.ok THEN ParseError
        ELSE IF after > Len(s) THEN [ok |-> TRUE, elems |-> Append(acc, v.val)]
        ELSE IF s[after] = "," THEN JsonElements(s, after + 1, Append(acc, v.val))
        ELSE ParseError

\* JSON.parse of a matched "[ ... ]"
JsonParseArray(m) ==
    LET inner == SubSeq(m, 2, Len(m) - 1)
    IN  IF SkipSpace(inner, 1) > Len(inner) THEN [ok |-> TRUE, elems |-> <<>>]
        ELSE JsonElements(inner, 1, <<>>)

\* Array.prototype.slice(0, n)
Take(seq, n) == SubSeq(seq, 1, IF Len(seq) < n THEN Len(seq) ELSE n)

IsUsableTag(t) == t # NotAString /\ Trim(t) # <<>>

MaxTags == 5

\* Strategy 1: a JSON array anywhere in the response
StructuredTags(raw) ==
    LET m == JsonMatch(raw)
        parsed == IF m = <<>> THEN ParseError ELSE JsonParseArray(m)
    IN  IF parsed.ok THEN Take(SelectSeq(parsed.elems, IsUsableTag), MaxTags) ELSE <<>>

\* the backtick character, which a TLA+ string cannot hold
Backtick == "bt"

\* first index >= from at which a code fence (three backticks) starts, 0 if none
FenceFrom(s, from) ==
    LET at == {k \in from..(Len(s) - 2) :
                  s[k] = Backtick /\ s[k + 1] = Backtick /\ s[k + 2] = Backtick}
    IN  IF at = {} THEN 0 ELSE MinOf(at)

RECURSIVE RemoveFences(_)
\* .replace(/<fence>[\s\S]*?<fence>/g, "")
RemoveFences(s) ==
    LET open == FenceFrom(s, 1)
        close == IF open = 0 THEN 0 ELSE FenceFrom(s, open + 3)
    IN  IF open = 0 \/ close = 0 THEN s
        ELSE SubSeq(s, 1, open - 1) \o RemoveFences(SubSeq(s, close + 3, Len(s)))

IsMarker(ch) == ch \in Digits \cup {"*", "-", "."}

RECURSIVE ReplaceMarkers(_)
\* .replace(/[*\-\d.]+\s*/g, " ")
ReplaceMarkers(s) ==
    IF s = <<>> THEN <<>>
    ELSE IF IsMarker(s[1])
    THEN LET stop == {k \in 1..Len(s) : ~IsMarker(s[k])}
             runEnd == IF stop = {} THEN Len(s) + 1 ELSE MinOf(stop)
             rest == SkipSpace(s, runEnd)
         IN  <<" ">> \o ReplaceMarkers(SubSeq(s, rest, Len(s)))
    ELSE <<s[1]>> \o ReplaceMarkers(Tail(s))

IsQuoteOrBracket(ch) == ch \in {"[", "]", "\"", "'"}
IsKept(ch) == ~IsQuoteOrBracket(ch)

IsSeparator(ch) == ch \in {",", "\n"}

RECURSIVE SplitOnSeparators(_)
\* .split(/[,\n]+/)
SplitOnSeparators(s) ==
    LET seps == {k \in 1..Len(s) : IsSeparator(s[k])}
    IN  IF seps = {} THEN <<s>>
        ELSE LET first == MinOf(seps)
                 stop == {k \in first..Len(s) : ~IsSeparator(s[k])}
                 rest == IF stop = {} THEN Len(s) + 1 ELSE MinOf(stop)
             IN  <<SubSeq(s, 1, first - 1)>> \o SplitOnSeparators(SubSeq(s, rest, Len(s)))

TrimLower(t) == ToLowerCase(Trim(t))
MapTrimLower(parts) == [i \in 1..Len(parts) |-> TrimLower(parts[i])]

MaxTagLen == 30

IsCandidateInclusive(t) == Len(t) >= 1 /\ Len(t) <= MaxTagLen

\* .filter((t) => t.length > 1 && t.length < 30)
IsCandidate(t) == Len(t) > 1 /\ Len(t) < MaxTagLen

\* Strategy 2: split on commas and newlines
HeuristicTags(raw) ==
    LET stripped == SelectSeq(ReplaceMarkers(RemoveFences(raw)), IsKept)
    IN  Take(SelectSeq(MapTrimLower(SplitOnSeparators(stripped)), IsCandidate), MaxTags)

ParseTags(raw) ==
    IF StructuredTags(raw) # <<>> THEN StructuredTags(raw) ELSE HeuristicTags(raw)

TagsHandlerAllowingEmpty(ps, body, outcome, dbOk) ==
    IF ~body.parsed THEN AiOutcome(ps, AiCatch(FALSE, "Failed to generate tags"), 0)
    ELSE LET pageId == body.pageId
             content == StringOrEmpty(body.content)
         IN  IF pageId = 0 \/ content = <<>>
             THEN AiOutcome(ps, Fail(400, "pageId and content are required"), 0)
             ELSE IF TooShort(content, TagsMinLen)
             THEN AiOutcome(ps, Fail(400, "Note content is too short to generate tags."), 0)
             ELSE IF outcome.kind = "throw"
             THEN AiOutcome(ps, AiCatch(MentionsRateLimit(outcome), "Failed to generate tags"), 1)
             ELSE LET rawResponse == CompletionText(outcome)
                      tags == ParseTags(rawResponse)
                  IN  IF rawResponse = <<>>
                      THEN AiOutcome(ps, Fail(500, "AI returned empty response"), 1)
                      ELSE IF ~dbOk
                      THEN AiOutcome(ps, AiCatch(FALSE, "Failed to generate tags"), 1)
                      ELSE AiOutcome(FindByIdAndUpdate(ps, pageId, "tags", tags),
                                     Ok(200, [result |-> tags]), 1)

\* POST /ai/tags
TagsHandler(ps, body, outcome, dbOk) ==
    IF ~body.parsed THEN AiOutcome(ps, AiCatch(FALSE, "Failed to generate tags"), 0)
    ELSE LET pageId == body.pageId
             content == StringOrEmpty(body.content)
         IN  IF pageId = 0 \/ content = <<>>
             THEN AiOutcome(ps, Fail(400, "pageId and content are required"), 0)
             ELSE IF TooShort(content, TagsMinLen)
             THEN AiOutcome(ps, Fail(400, "Note content is too short to generate tags."), 0)
             ELSE IF outcome.kind = "throw"
             THEN AiOutcome(ps, AiCatch(MentionsRateLimit(outcome), "Failed to generate tags"), 1)
             ELSE LET rawResponse == CompletionText(outcome)
                      tags == ParseTags(rawResponse)
                  IN  IF rawResponse = <<>>
                      THEN AiOutcome(ps, Fail(500, "AI returned empty response"), 1)
                      ELSE IF tags = <<>>
                      THEN AiOutcome(ps, Fail(500, "AI could not generate tags"), 1)
                      ELSE IF ~dbOk
                      THEN AiOutcome(ps, AiCatch(FALSE, "Failed to generate tags"), 1)
                      ELSE AiOutcome(FindByIdAndUpdate(ps, pageId, "tags", tags),
                                     Ok(200, [result |-> tags]), 1)

---------------------------------------------------------------------------
(* Session state while the store specifications run *)

\* the document BlockNote creates when initialContent is empty
\* connectDB calls in the process
MaxConnectors == 3

Connectors == 1..MaxConnectors

\* cached = global.mongoose = { conn: null, promise: null }
NoConnection == [conn |-> 0, promise |-> 0]

\* a connectDB call that has not started
NotCalled == [pc |-> "idle", promise |-> 0, result |-> 0]

ConnIdle ==
    /\ cached = NoConnection
    /\ promises = <<>>
    /\ connectors = [c \in Connectors |-> NotCalled]

\* the connection the k-th mongoose.connect call opens
HandleOf(k) == k

StartConnectUnguarded(c, ps) ==
    [cached |-> [c EXCEPT !.promise = Len(ps) + 1], promises |-> Append(ps, "pending")]

\* if (!cached.promise) { cached.promise = mongoose.connect(...).then(...) }
StartConnect(c, ps) ==
    IF c.promise = 0
    THEN [cached |-> [c EXCEPT !.promise = Len(ps) + 1], promises |-> Append(ps, "pending")]
    ELSE [cached |-> c, promises |-> ps]

InitBlocks == <<Para(<<>>)>>

\* no toast.error call
NoToast == ""

\* useState<AIPanelState>({ type: null, result: null })
NoPanel == [type |-> "null", result |-> Null]

\* a mutation that is not pending
NotPending == [pending |-> FALSE, body |-> MalformedBody]

SessionIdle ==
    /\ mounted = FALSE
    /\ blocks = InitBlocks
    /\ title = Untitled
    /\ timers = {}
    /\ saveTimerRef = 0
    /\ titleSaveTimer = 0
    /\ nextTimerId = 1
    /\ inflight = {}
    /\ nextReq = 1
    /\ anyFailed = FALSE
    /\ liveBlocksRef = <<>>
    /\ aiPanel = NoPanel
    /\ genState = NotPending
    /\ impState = NotPending
    /\ sumState = NotPending
    /\ tagState = NotPending
    /\ isSavingTitle = FALSE
    /\ lastToast = NoToast
    /\ ConnIdle
    /\ handlers = {}

---------------------------------------------------------------------------
(* Spec: the /pages routes *)

Init ==
    /\ pages = [i \in PageIds |-> NoPage]
    /\ nextId = 1
    /\ providerCalls = 0
    /\ lastReq = NoReq
    /\ lastResp = Ok(200, NoData)
    /\ lastOutcome = NoOutcome
    /\ SessionIdle

\* the database outcomes and PATCH bodies tried for a caller.  The
\* middleware ends a request without a session before the handler connects
\* or reads the body, so for such a caller one of each is tried
DbOf(uid) == IF uid \in Users THEN BOOLEAN ELSE {TRUE}
PatchOf(uid) ==
    IF uid \in Users THEN PatchBodies
    ELSE {Body({"title", "isFavorite"}, [NewPage("none", T1, Null) EXCEPT !.isFavorite = TRUE])}

Respond(req, out) ==
    /\ pages' = out.pages
    /\ lastReq' = req
    /\ lastResp' = out.resp
    /\ lastOutcome' = NoOutcome

CreatePage ==
    \E uid \in Callers : \E body \in CreateBodies, dbOk \in DbOf(uid) :
        LET out == AuthMiddleware(uid, pages, CreateHandler(pages, nextId, uid, body, dbOk))
        IN  /\ nextId \in PageIds
            /\ Respond(Req("create", uid, nextId, body, dbOk), out)
            /\ nextId' = IF out.resp.status = 201 THEN nextId + 1 ELSE nextId
            /\ UNCHANGED <<connVars, handlers, providerCalls, sessionVars>>

GetPage ==
    \E uid \in Callers : \E id \in 1..(MaxPages + 1), dbOk \in DbOf(uid) :
        /\ Respond(Req("get", uid, id, NoBody, dbOk), AuthMiddleware(uid, pages, GetHandler(pages, id, uid, dbOk)))
        /\ UNCHANGED <<connVars, handlers, nextId, providerCalls, sessionVars>>

PatchPage ==
    \E uid \in Callers : \E id \in 1..(MaxPages + 1), body \in PatchOf(uid), dbOk \in DbOf(uid) :
        /\ Respond(Req("patch", uid, id, body, dbOk),
                   AuthMiddleware(uid, pages, PatchHandler(pages, id, uid, body, dbOk)))
        /\ UNCHANGED <<connVars, handlers, nextId, providerCalls, sessionVars>>

ToggleFavorite ==
    \E uid \in Callers : \E id \in 1..(MaxPages + 1), dbOk \in DbOf(uid) :
        /\ Respond(Req("favorite", uid, id, NoBody, dbOk),
                   AuthMiddleware(uid, pages, FavoriteHandler(pages, id, uid, dbOk)))
        /\ UNCHANGED <<connVars, handlers, nextId, providerCalls, sessionVars>>

ToggleArchive ==
    \E uid \in Callers : \E id \in 1..(MaxPages + 1), dbOk \in DbOf(uid) :
        /\ Respond(Req("archive", uid, id, NoBody, dbOk),
                   AuthMiddleware(uid, pages, ArchiveHandler(pages, id, uid, dbOk)))
        /\ UNCHANGED <<connVars, handlers, nextId, providerCalls, sessionVars>>

DeletePage ==
    \E uid \in Callers : \E id \in 1..(MaxPages + 1), dbOk \in DbOf(uid) :
        /\ Respond(Req("delete", uid, id, NoBody, dbOk),
                   AuthMiddleware(uid, pages, DeleteHandler(pages, id, uid, dbOk)))
        /\ UNCHANGED <<connVars, handlers, nextId, providerCalls, sessionVars>>

Next ==
    \/ CreatePage
    \/ GetPage
    \/ PatchPage
    \/ ToggleFavorite
    \/ ToggleArchive
    \/ DeletePage

Spec == Init /\ [][Next]_vars

---------------------------------------------------------------------------
(* Claims about the /pages routes *)

\* the store as the caller owns it: every document of another owner removed
OwnedBy(ps, uid) ==
    [i \in PageIds |-> IF ps[i] # NoPage /\ ps[i].userId = uid THEN ps[i] ELSE NoPage]

\* C1: no stored document is archived and favorite at the same time
C1_NeverArchivedAndFavorite ==
    \A id \in PageIds :
        pages[id] # NoPage => ~(pages[id].isArchived /\ pages[id].isFavorite)

\* C3: the response to GET, PATCH, favorite, archive and DELETE on /pages/:id
\* is the response the same request gets from the store with every document
\* of another owner removed, and when the id names another owner's document
\* or no document and the request reaches the lookup, it is the one 404
\* "Page not found" envelope
C3_OwnershipIsolation ==
    [][(lastReq'.route \in IdRoutes /\ lastReq'.caller \in Users) =>
        LET req == lastReq'
            unowned == ~Exists(pages, req.id) \/ pages[req.id].userId # req.caller
            reachesLookup ==
                /\ req.dbOk
                /\ (req.route = "patch" => allowedFields \cap req.body.has # {})
        IN  /\ lastResp' = Serve(OwnedBy(pages, req.caller), req).resp
            /\ (unowned /\ reachesLookup) => lastResp' = NotFound]_vars

\* a GET on an existing document of another owner was answered 404
C3_Witness ==
    /\ lastReq.route = "get"
    /\ Exists(pages, lastReq.id)
    /\ pages[lastReq.id].userId # lastReq.caller
    /\ lastResp = NotFound

C13_ArchiveTransitions ==
    [][(lastReq'.route = "archive" /\ lastResp'.success) =>
        LET id == lastReq'.id
        IN  /\ Exists(pages, id)
            /\ ~pages[id].isArchived =>
                    (pages'[id].isArchived /\ ~pages'[id].isFavorite)
            /\ pages[id].isArchived =>
                    (~pages'[id].isArchived /\ pages'[id].isFavorite = pages[id].isFavorite)]_vars

\* an archive toggle restored a document from the archive, and the document
\* is not favorite
C13_Witness ==
    /\ lastReq.route = "archive"
    /\ lastResp = Ok(200, [isArchived |-> FALSE])
    /\ ~pages[lastReq.id].isArchived
    /\ ~pages[lastReq.id].isFavorite

---------------------------------------------------------------------------
(* AiSpec: the /ai routes, on a store in which every page id has been       *)
(* created by POST /pages, odd ids by alice and even ids by bob             *)

OwnerOf(id) == IF id % 2 = 1 THEN "alice" ELSE "bob"

\* k characters of text between two spaces
Padded(k) == <<" ">> \o Rep("a", k) \o <<" ">>

\* content values around a minimum length: not a string, empty, one short of
\* the minimum once trimmed, exactly the minimum
ContentsFor(min) == {NotAString, <<>>, Padded(min - 1), Rep("a", min)}

SummarizeBodies ==
    {MalformedBody} \cup
    {AiBody(TRUE, id, c, NotAString, NotAString) :
        id \in RequestIds, c \in ContentsFor(SummarizeMinLen)}

TagsBodies ==
    {MalformedBody} \cup
    {AiBody(TRUE, id, c, NotAString, NotAString) :
        id \in RequestIds, c \in ContentsFor(TagsMinLen)}

ImproveBodies ==
    {MalformedBody} \cup
    {AiBody(TRUE, id, c, sel, NotAString) :
        id \in PageIds, c \in {<<>>, Rep("a", ImproveMinLen)},
        sel \in ContentsFor(ImproveMinLen)}

GenerateBodies ==
    {MalformedBody} \cup
    {AiBody(TRUE, id, <<>>, NotAString, p) :
        id \in PageIds, p \in {NotAString, <<>>, <<" ">>, <<"p">>}}

TextOutcomes ==
    {Completion(<<" ", "s", " ">>), Completion(Null), RateLimitLower, RateLimitUpper,
     ProviderDown}

TagOutcomes ==
    {Completion(<<"[", "\"", "a", "b", "\"", "]">>), Completion(<<"x">>),
     RateLimitLower, ProviderDown}

\* what the provider and the database do during one request: any provider
\* outcome with the database reachable, or a completion with the database
\* unreachable
Envs(outcomes) ==
    {[outcome |-> o, dbOk |-> TRUE] : o \in outcomes} \cup
    {[outcome |-> o, dbOk |-> FALSE] : o \in {x \in outcomes : x.kind = "text"}}

\* the bodies and environments tried for a caller.  The middleware ends a
\* request without a session before its body is read, so for such a caller
\* one request is tried: the first page, text of the route's minimum length,
\* a provider that would complete
PassingBody(min) ==
    AiBody(TRUE, 1, Rep("a", min), Rep("a", min), <<"p">>)
BodiesOf(caller, bodies, min) ==
    IF caller \in Users THEN bodies ELSE {PassingBody(min)}
EnvsOf(caller, envs) ==
    IF caller \in Users THEN envs
    ELSE {[outcome |-> Completion(<<"[", "\"", "a", "b", "\"", "]">>), dbOk |-> TRUE]}

AiInit ==
    /\ pages = [i \in PageIds |-> NewPage(OwnerOf(i), Untitled, Null)]
    /\ nextId = MaxPages + 1
    /\ providerCalls = 0
    /\ lastReq = NoReq
    /\ lastResp = Ok(200, NoData)
    /\ lastOutcome = NoOutcome
    /\ SessionIdle

\* an /ai request is served in the environment env: the provider's outcome
\* and whether the database can be reached
AiRespond(route, caller, body, env, out) ==
    /\ providerCalls + out.calls <= MaxProviderCalls
    /\ pages' = out.pages
    /\ providerCalls' = providerCalls + out.calls
    /\ lastReq' = Req(route, caller, body.pageId, body, env.dbOk)
    /\ lastResp' = out.resp
    /\ lastOutcome' = IF out.calls = 0 THEN NoOutcome ELSE env.outcome

Summarize ==
    \E caller \in Callers :
    \E body \in BodiesOf(caller, SummarizeBodies, SummarizeMinLen),
       env \in EnvsOf(caller, Envs(TextOutcomes)) :
        /\ AiRespond("summarize", caller, body, env,
                     AuthMiddleware(caller, pages,
                         SummarizeHandler(pages, body, env.outcome, env.dbOk)))
        /\ UNCHANGED <<connVars, handlers, nextId, sessionVars>>

Improve ==
    \E caller \in Callers :
    \E body \in BodiesOf(caller, ImproveBodies, ImproveMinLen),
       env \in EnvsOf(caller, {[outcome |-> o, dbOk |-> TRUE] : o \in TextOutcomes}) :
        /\ AiRespond("improve", caller, body, env,
                     AuthMiddleware(caller, pages,
                         ImproveHandler(pages, body, env.outcome, TRUE)))
        /\ UNCHANGED <<connVars, handlers, nextId, sessionVars>>

GenerateTags ==
    \E caller \in Callers :
    \E body \in BodiesOf(caller, TagsBodies, TagsMinLen),
       env \in EnvsOf(caller, Envs(TagOutcomes)) :
        /\ AiRespond("tags", caller, body, env,
                     AuthMiddleware(caller, pages,
                         TagsHandler(pages, body, env.outcome, env.dbOk)))
        /\ UNCHANGED <<connVars, handlers, nextId, sessionVars>>

Generate ==
    \E caller \in Callers :
    \E body \in BodiesOf(caller, GenerateBodies, 1),
       env \in EnvsOf(caller, {[outcome |-> o, dbOk |-> TRUE] : o \in TextOutcomes}) :
        /\ AiRespond("generate", caller, body, env,
                     AuthMiddleware(caller, pages,
                         GenerateHandler(pages, body, env.outcome, TRUE)))
        /\ UNCHANGED <<connVars, handlers, nextId, sessionVars>>

AiNext ==
    \/ Summarize
    \/ Improve
    \/ GenerateTags
    \/ Generate

AiSpec == AiInit /\ [][AiNext]_vars

---------------------------------------------------------------------------
(* TagSpec: POST /ai/tags on the raw completions built from a few pieces of *)
(* text, each request served on the initial store                           *)

\* pieces of a completion per raw output
MaxTokens == 2

\* a JSON array of two capitalised strings
TokList ==
    <<"[", "\"", "A", "b", "\"", ",", " ", "\"", "C", "d", "\"", "]">>
\* the start of a JSON array with a first string
TokOpen ==
    <<"[", "\"", "A", "b", "\"">>
\* the end of an array
TokClose ==
    <<"]">>
\* a bracketed reference: an array without strings
TokNoStrings ==
    <<"[", "1", "]">>
\* an array whose first string is whitespace only
TokBlankList ==
    <<"[", "\"", " ", " ", "\"", ",", "\"", "A", "b", "\"", "]">>
\* an array of six strings
TokSixList ==
    <<"[", "\"", "a", "b", "\"", ",", "\"", "a", "b", "\"", ",", "\"",
      "a", "b", "\"", ",", "\"", "a", "b", "\"", ",", "\"", "a", "b",
      "\"", ",", "\"", "a", "b", "\"", "]">>
\* two items of a numbered list
TokItems ==
    <<"1", ".", " ", "A", "b", "\n", "2", ".", " ", "C", "d">>
\* a line break
TokNewline ==
    <<"\n">>
\* a one-character word
TokX ==
    <<"x">>
\* a comma
TokComma ==
    <<",">>
\* a code fence
TokFence ==
    <<Backtick, Backtick, Backtick>>
\* a word as long as the tag length limit
TokTooLong == Rep("a", MaxTagLen)

Tokens == {TokList, TokOpen, TokClose, TokNoStrings, TokBlankList, TokSixList,
           TokItems, TokNewline, TokX, TokComma, TokFence, TokTooLong}

RECURSIVE Flatten(_)
\* the concatenation of a sequence of strings
Flatten(parts) == IF parts = <<>> THEN <<>> ELSE Head(parts) \o Flatten(Tail(parts))

RawOutputs == {Flatten(ts) : ts \in UNION {[1..n -> Tokens] : n \in 1..MaxTokens}}

\* a valid tags request for the first page by its owner
TagRequest == AiBody(TRUE, 1, Rep("a", TagsMinLen), NotAString, NotAString)

ReconcileTags ==
    \E raw \in RawOutputs :
        /\ providerCalls = 0
        /\ AiRespond("tags", OwnerOf(1), TagRequest,
                     [outcome |-> Completion(raw), dbOk |-> TRUE],
                     TagsHandler(pages, TagRequest, Completion(raw), TRUE))
        /\ UNCHANGED <<connVars, handlers, nextId, sessionVars>>

TagNext == ReconcileTags

TagSpec == AiInit /\ [][TagNext]_vars

---------------------------------------------------------------------------
(* Claims about the /ai routes *)

AiRoutes == {"summarize", "improve", "tags", "generate"}

\* C2: no request changes or removes a document owned by a user other than
\* its caller
C2_OwnerScoped ==
    [][lastReq'.route # "none" =>
        \A id \in PageIds :
            (Exists(pages, id) /\ pages[id].userId # lastReq'.caller)
                => pages'[id] = pages[id]]_vars

\* the precondition of C8: the request's text is below the route's minimum
BelowMinimum(req) ==
    CASE req.route = "summarize" ->
            Len(Trim(StringOrEmpty(req.body.content))) < SummarizeMinLen
      [] req.route = "tags" ->
            Len(Trim(StringOrEmpty(req.body.content))) < TagsMinLen
      [] req.route = "improve" ->
            LET sel == req.body.selection
                target == IF sel # NotAString /\ sel # <<>> THEN sel
                          ELSE StringOrEmpty(req.body.content)
            IN  Len(Trim(target)) < ImproveMinLen
      [] req.route = "generate" ->
            \A i \in 1..Len(StringOrEmpty(req.body.prompt)) :
                IsSpace(req.body.prompt[i])

\* C8: a summarize, tags, improve or generate request (with a JSON object
\* body) whose text is below the route's minimum is answered 400 with
\* success false, makes no provider call and writes no document
C8_ValidationGating ==
    [][(lastReq'.route \in AiRoutes /\ lastReq'.caller \in Users
            /\ lastReq'.body.parsed /\ BelowMinimum(lastReq'))
        => /\ lastResp'.status = 400
           /\ ~lastResp'.success
           /\ providerCalls' = providerCalls
           /\ pages' = pages]_vars

\* a summarize request whose content is long enough only before trimming
\* was rejected, after the provider had been called for other requests
C8_Witness ==
    /\ lastReq.route = "summarize"
    /\ lastReq.body.content = Padded(SummarizeMinLen - 1)
    /\ lastReq.id \in PageIds
    /\ lastResp.status = 400
    /\ providerCalls > 0

\* C9: an improve or generate request leaves every stored document unchanged
C9_NoPersistence ==
    [][lastReq'.route \in {"improve", "generate"} => pages' = pages]_vars

\* an improve request on an existing page succeeded
C9_Witness ==
    /\ lastReq.route = "improve"
    /\ lastReq.id \in PageIds
    /\ lastResp.success
    /\ lastResp.status = 200
    /\ pages[lastReq.id].content = <<>>

\* the field a persisting AI route writes
PersistedField(route) == IF route = "summarize" THEN "summary" ELSE "tags"

\* C11: when summarize or tags answers success with a result for a page id,
\* the document with that id holds the result in its summary (tags) field
\* after the request, and the request changed no other field and no other
\* document
C11_PersistedOnSuccess ==
    [][(lastReq'.route \in {"summarize", "tags"} /\ lastResp'.success)
        => LET id == lastReq'.id
               field == PersistedField(lastReq'.route)
           IN  /\ Exists(pages', id)
               /\ pages'[id][field] = lastResp'.data.result
               /\ \A f \in PageFields \ {field} : pages'[id][f] = pages[id][f]
               /\ \A other \in PageIds \ {id} : pages'[other] = pages[other]]_vars

\* the message of a route's catch block
GenericFailure(route) ==
    CASE route = "summarize" -> "Failed to generate summary"
      [] route = "improve" -> "Failed to improve text"
      [] route = "tags" -> "Failed to generate tags"
      [] route = "generate" -> "Failed to generate content"

\* the provider completed with text that is empty once trimmed
EmptyCompletion(outcome) ==
    outcome.kind = "text" /\ (outcome.text = Null \/ Trim(outcome.text) = <<>>)

\* C18: on every AI route, a provider call rejected for rate limiting is
\* answered 429, any other provider failure is answered 500 with the route's
\* generic failure message, an empty completion is answered 500 with an
\* "empty response" message that is not the generic one, and none of the
\* three writes a document
C18_FailureClassification ==
    [][(lastReq'.route \in AiRoutes /\ providerCalls' > providerCalls) =>
        LET outcome == lastOutcome'
            generic == GenericFailure(lastReq'.route)
        IN  /\ (outcome.kind = "throw" /\ outcome.status = 429) =>
                    (lastResp'.status = 429 /\ ~lastResp'.success /\ pages' = pages)
            /\ (outcome.kind = "throw" /\ outcome.status # 429) =>
                    (lastResp' = Fail(500, generic) /\ pages' = pages)
            /\ EmptyCompletion(outcome) =>
                    /\ lastResp'.status = 500
                    /\ ~lastResp'.success
                    /\ lastResp'.error \in {"AI returned an empty response",
                                            "AI returned empty response"}
                    /\ lastResp'.error # generic
                    /\ pages' = pages]_vars

\* C19: a request whose session lookup finds no session, on any /pages or
\* /ai route, is answered 401 with success false, changes no document and
\* makes no provider call
C19_AuthGating ==
    [][(lastReq'.route # "none" /\ lastReq'.caller = Anonymous) =>
        /\ lastResp'.status = 401
        /\ ~lastResp'.success
        /\ lastResp'.error # ""
        /\ pages' = pages
        /\ providerCalls' = providerCalls
        /\ lastOutcome' = NoOutcome]_vars

\* a summarize request without a session, carrying a valid body for an
\* existing page, was answered 401 and the page has no summary
C19_Witness ==
    /\ lastReq.route = "summarize"
    /\ lastReq.caller = Anonymous
    /\ lastReq.id \in PageIds
    /\ ~TooShort(lastReq.body.content, SummarizeMinLen)
    /\ lastResp = Unauthorized
    /\ pages[lastReq.id].summary = Null

\* C20: every request that does not succeed is answered with the envelope
\* { success: false, error } and a status among 400, 401, 404, 429 and 500;
\* no failure leaves the route as an uncaught exception
C20_FailuresEnveloped ==
    (lastReq.route # "none" /\ ~lastResp.success) =>
        /\ lastResp # Uncaught
        /\ lastResp.error # ""
        /\ lastResp.status \in {400, 401, 404, 429, 500}

---------------------------------------------------------------------------
(* Claims about the tag reconciliation of POST /ai/tags *)

\* the last request was a tags request in which the provider completed with
\* a raw output that is not empty once trimmed
TagsCompleted ==
    /\ lastReq.route = "tags"
    /\ lastOutcome.kind = "text"
    /\ lastOutcome.text # Null
    /\ Trim(lastOutcome.text) # <<>>

\* the strings of a parsed array that are not blank
UsableElements(elems) == SelectSeq(elems, IsUsableTag)

CouldNotGenerate == Fail(500, "AI could not generate tags")

\* C14: with the database reachable, a tags request whose raw output is not
\* empty is answered either success with 1 to 5 tags or, exactly when both
\* strategies yield no tag, 500 "AI could not generate tags", and a tags
\* request that fails writes no document
C14_NeverEmptySuccess ==
    /\ [](TagsCompleted =>
            LET raw == Trim(lastOutcome.text)
            IN  IF StructuredTags(raw) = <<>> /\ HeuristicTags(raw) = <<>>
                THEN lastResp = CouldNotGenerate
                ELSE /\ lastResp.success
                     /\ Len(lastResp.data.result) \in 1..5)
    /\ [][(lastReq'.route = "tags" /\ ~lastResp'.success) => pages' = pages]_vars

\* a raw output with a bracketed list from which neither strategy recovers
\* a tag was answered with the terminal failure
C14_Witness ==
    /\ lastReq.route = "tags"
    /\ lastOutcome.kind = "text"
    /\ \E i \in 1..Len(lastOutcome.text) : lastOutcome.text[i] = "["
    /\ lastResp = CouldNotGenerate
    /\ pages[lastReq.id].tags = <<>>

\* the bracketed substrings of raw that parse as an array with a usable string
ParseableLists(raw) ==
    {SubSeq(raw, i, j) : <<i, j>> \in
        {p \in (1..Len(raw)) \X (1..Len(raw)) :
            /\ p[1] < p[2]
            /\ raw[p[1]] = "["
            /\ raw[p[2]] = "]"
            /\ JsonParseArray(SubSeq(raw, p[1], p[2])).ok
            /\ UsableElements(JsonParseArray(SubSeq(raw, p[1], p[2])).elems) # <<>>}}

\* C15 as stated: when the raw output contains a bracketed list that parses
\* as an array with a non-empty string element, the result is the first at
\* most 5 such elements of that array
C15_AnyParseableList ==
    TagsCompleted =>
        LET raw == Trim(lastOutcome.text)
        IN  ParseableLists(raw) # {} =>
                /\ lastResp.success
                /\ \E m \in ParseableLists(raw) :
                        lastResp.data.result =
                            Take(UsableElements(JsonParseArray(m).elems), 5)

\* the substring from the first "[" to the first "]" after it, <<>> if none
FirstBracketed(raw) ==
    LET opens == {i \in 1..Len(raw) : raw[i] = "["}
        closes == {j \in 1..Len(raw) : raw[j] = "]" /\ opens # {} /\ j > MinOf(opens)}
    IN  IF opens = {} \/ closes = {} THEN <<>>
        ELSE SubSeq(raw, MinOf(opens), MinOf(closes))

\* C15: when the substring from the first "[" to the first "]" after it
\* parses as an array with a string element that is not blank, the result
\* is the first at most 5 such elements, in order and as they are, whatever
\* the heuristic strategy would have produced
C15_FirstListPrecedence ==
    TagsCompleted =>
        LET raw == Trim(lastOutcome.text)
            m == FirstBracketed(raw)
        IN  (m # <<>> /\ JsonParseArray(m).ok
                      /\ UsableElements(JsonParseArray(m).elems) # <<>>) =>
                /\ lastResp.success
                /\ lastResp.data.result = Take(UsableElements(JsonParseArray(m).elems), 5)
                /\ pages[lastReq.id].tags = lastResp.data.result

\* a parsed list was returned as it is although the heuristic strategy
\* produces other tags from the same raw output
C15_Witness ==
    /\ lastReq.route = "tags"
    /\ lastOutcome.kind = "text"
    /\ lastResp.success
    /\ Len(lastResp.data.result) > 1
    /\ lastResp.data.result = StructuredTags(Trim(lastOutcome.text))
    /\ lastResp.data.result # HeuristicTags(Trim(lastOutcome.text))

\* a character none of the heuristic strategy's tags can hold
IsStripped(ch) == ch \in Digits \cup {"*", "-", ".", "[", "]", "\"", "'", ",", "\n"}

WithinTagLength(t) == Len(t) > 1 /\ Len(t) < 30

\* C16: when the structured strategy yields no tag, a successful result is
\* the first at most 5, in order, of the candidates left after removing code
\* fences, list markers, quotes and brackets and splitting on commas and
\* newlines, each trimmed and in lower case, of length 2 to 29
C16_HeuristicPath ==
    (TagsCompleted /\ StructuredTags(Trim(lastOutcome.text)) = <<>> /\ lastResp.success) =>
        LET raw == Trim(lastOutcome.text)
            tags == lastResp.data.result
            stripped == SelectSeq(ReplaceMarkers(RemoveFences(raw)), IsKept)
            candidates == SelectSeq(MapTrimLower(SplitOnSeparators(stripped)),
                                    WithinTagLength)
        IN  /\ tags = Take(candidates, 5)
            /\ Len(tags) \in 1..5
            /\ \A k \in 1..Len(tags) :
                    /\ Len(tags[k]) \in 2..29
                    /\ Trim(tags[k]) = tags[k]
                    /\ ToLowerCase(tags[k]) = tags[k]
                    /\ \A i \in 1..Len(tags[k]) : ~IsStripped(tags[k][i])

\* a numbered list over two lines was turned into its two items in lower case
C16_Witness ==
    /\ lastReq.route = "tags"
    /\ lastOutcome.kind = "text"
    /\ lastOutcome.text = TokItems
    /\ lastResp.success
    /\ lastResp.data.result = <<<<"a", "b">>, <<"c", "d">>>>
    /\ pages[lastReq.id].tags = lastResp.data.result

---------------------------------------------------------------------------
(* The editing session: blocks to text, insertion, debounce timers *)

RECURSIVE ExtractInlineText(_)
\* extractInlineText
ExtractInlineText(inline) ==
    IF "text" \in DOMAIN inline /\ inline.text # <<>> THEN inline.text
    ELSE IF "content" \in DOMAIN inline
    THEN LET Cat[i \in 0..Len(inline.content)] ==
                 IF i = 0 THEN <<>>
                 ELSE Cat[i - 1] \o ExtractInlineText(inline.content[i])
         IN  Cat[Len(inline.content)]
    ELSE <<>>

\* lines.join("\n")
JoinLines(lines) ==
    LET Cat[i \in 0..Len(lines)] ==
            IF i = 0 THEN <<>>
            ELSE IF i = 1 THEN lines[1]
            ELSE Cat[i - 1] \o <<"\n">> \o lines[i]
    IN  Cat[Len(lines)]

\* block.content.map(extractInlineText).join("")
LineText(block) ==
    LET Cat[i \in 0..Len(block.content)] ==
            IF i = 0 THEN <<>>
            ELSE Cat[i - 1] \o ExtractInlineText(block.content[i])
    IN  Cat[Len(block.content)]

RECURSIVE ExtractTextChildrenFirst(_)
ExtractTextChildrenFirst(bs) ==
    LET Lines[i \in 0..Len(bs)] ==
            IF i = 0 THEN <<>>
            ELSE LET lineText == IF "content" \in DOMAIN bs[i] THEN LineText(bs[i]) ELSE <<>>
                     childText == IF "children" \in DOMAIN bs[i]
                                  THEN ExtractTextChildrenFirst(bs[i].children) ELSE <<>>
                     own == IF Trim(lineText) # <<>> THEN <<lineText>> ELSE <<>>
                     nested == IF Trim(childText) # <<>> THEN <<childText>> ELSE <<>>
                 IN  Lines[i - 1] \o nested \o own
    IN  JoinLines(Lines[Len(bs)])

RECURSIVE ExtractTextFromBlocks(_)
\* extractTextFromBlocks; a block may lack content or children
ExtractTextFromBlocks(bs) ==
    LET Lines[i \in 0..Len(bs)] ==
            IF i = 0 THEN <<>>
            ELSE LET lineText == IF "content" \in DOMAIN bs[i] THEN LineText(bs[i]) ELSE <<>>
                     childText == IF "children" \in DOMAIN bs[i]
                                  THEN ExtractTextFromBlocks(bs[i].children) ELSE <<>>
                     own == IF Trim(lineText) # <<>> THEN <<lineText>> ELSE <<>>
                     nested == IF Trim(childText) # <<>> THEN <<childText>> ELSE <<>>
                 IN  Lines[i - 1] \o own \o nested
    IN  JoinLines(Lines[Len(bs)])

RECURSIVE SplitParagraphs(_)
\* content.split("\n\n")
SplitParagraphs(s) ==
    LET seps == {i \in 1..(Len(s) - 1) : s[i] = "\n" /\ s[i + 1] = "\n"}
    IN  IF seps = {} THEN <<s>>
        ELSE LET i == MinOf(seps)
             IN  <<SubSeq(s, 1, i - 1)>> \o SplitParagraphs(SubSeq(s, i + 2, Len(s)))

\* .filter(p => p.trim()).map(p => ({ type: "paragraph", content: p }))
BlocksToInsert(content) ==
    LET parts == SplitParagraphs(content)
        Keep[i \in 0..Len(parts)] ==
            IF i = 0 THEN <<>>
            ELSE IF Trim(parts[i]) # <<>> THEN Keep[i - 1] \o <<Para(parts[i])>>
            ELSE Keep[i - 1]
    IN  Keep[Len(parts)]

\* editor.insertBlocks(blocksToInsert, <the block at the cursor>, "after")
InsertContent(doc, cursor, content) ==
    SubSeq(doc, 1, cursor) \o BlocksToInsert(content) \o SubSeq(doc, cursor + 1, Len(doc))

\* a pending setTimeout callback: its id, the time left, and the value its
\* closure captured (blocks for the Editor's timer, title for the page's)
Timer(id, kind, due, bs, t) ==
    [id |-> id, kind |-> kind, due |-> due, blocks |-> bs, title |-> t]

\* clearTimeout(ref) after "if (ref)"
ClearTimeout(ts, ref) == {t \in ts : t.id # ref}

ContentTimers(ts) == {t \in ts : t.kind = "content"}
TitleTimers(ts) == {t \in ts : t.kind = "title"}

HandleChangeNoClear(ts, ref, id, bs) ==
    ts \cup {Timer(id, "content", DebounceMs, bs, <<>>)}

HandleChangeKeepingDeadline(ts, ref, id, bs) ==
    ClearTimeout(ts, ref) \cup
        {Timer(id, "content",
               IF \E t \in ts : t.id = ref THEN (CHOOSE t \in ts : t.id = ref).due
               ELSE DebounceMs,
               bs, <<>>)}

\* Editor.handleChange, step 3: the timers after the debounced save is re-armed
HandleChange(ts, ref, id, bs) ==
    ClearTimeout(ts, ref) \cup {Timer(id, "content", DebounceMs, bs, <<>>)}

HandleTitleChangeNoClear(ts, ref, id, newTitle) ==
    ts \cup {Timer(id, "title", TitleDebounceMs, <<>>, newTitle)}

\* handleTitleChange: the timers after the debounced title save is re-armed
HandleTitleChange(ts, ref, id, newTitle) ==
    ClearTimeout(ts, ref) \cup {Timer(id, "title", TitleDebounceMs, <<>>, newTitle)}

\* updatePage.mutateAsync({ pageId, data }): the JSON body of the PATCH
ContentBody(bs) == Body({"content"}, [NewPage("none", Untitled, Null) EXCEPT !.content = bs])
TitleBody(t) == Body({"title"}, NewPage("none", t, Null))

GetPlainTextPreferringFetched(live, page) ==
    IF page.content = <<>> THEN ExtractTextFromBlocks(live)
    ELSE ExtractTextFromBlocks(page.content)

\* getPlainText
GetPlainText(live, page) ==
    IF live = <<>>
    THEN IF page.content = <<>> THEN <<>> ELSE ExtractTextFromBlocks(page.content)
    ELSE ExtractTextFromBlocks(live)

---------------------------------------------------------------------------
(* SessionSpec: alice edits her page in the page component, with the store  *)
(* and the provider answering the session's requests                       *)

SessionUser == "alice"
SessionPage == 1

\* the text the user types into a block
Word == Rep("a", ImproveMinLen)

Titles == {Untitled, T1}

\* the documents one user edit of doc can produce: typing into a block or
\* adding a block
EditDocs(doc) ==
    ({[doc EXCEPT ![i] = Para(Word)] : i \in 1..Len(doc)}
     \cup (IF Len(doc) < MaxBlocks THEN {Append(doc, Para(Word))} ELSE {}))
    \ {doc}

Prompts == {<<" ">>, <<"p">>}

GenOutcomes ==
    {Completion(<<"g">>), Completion(<<"g", "\n", "\n", "g">>), ProviderDown}

ImpOutcomes == {Completion(<<"i">>), RateLimitLower}

SessionInit ==
    /\ pages = [i \in PageIds |-> NewPage(OwnerOf(i), Untitled, Null)]
    /\ nextId = MaxPages + 1
    /\ providerCalls = 0
    /\ lastReq = NoReq
    /\ lastResp = Ok(200, NoData)
    /\ lastOutcome = NoOutcome
    /\ mounted = TRUE
    /\ blocks = InitBlocks
    /\ title = Untitled
    /\ timers = {}
    /\ saveTimerRef = 0
    /\ titleSaveTimer = 0
    /\ nextTimerId = 1
    /\ inflight = {}
    /\ nextReq = 1
    /\ anyFailed = FALSE
    /\ liveBlocksRef = <<>>
    /\ aiPanel = NoPanel
    /\ genState = NotPending
    /\ impState = NotPending
    /\ sumState = NotPending
    /\ tagState = NotPending
    /\ isSavingTitle = FALSE
    /\ lastToast = NoToast
    /\ ConnIdle
    /\ handlers = {}

\* BlockNote's onChange after the document became doc: Editor.handleChange
\* and the page's onChange prop
OnEditorChange(doc) ==
    /\ nextTimerId <= MaxTimers
    /\ blocks' = doc
    /\ liveBlocksRef' = doc
    /\ timers' = HandleChange(timers, saveTimerRef, nextTimerId, doc)
    /\ saveTimerRef' = nextTimerId
    /\ nextTimerId' = nextTimerId + 1

\* the user edits the document
EditorChange ==
    /\ mounted
    /\ \E doc \in EditDocs(blocks) : OnEditorChange(doc)
    /\ UNCHANGED <<connVars, handlers, sumState, tagState, isSavingTitle, lastToast,
                   storeVars, mounted, title, titleSaveTimer, inflight, nextReq,
                   anyFailed, aiPanel, genState, impState>>

\* the user edits the title input
TitleChange ==
    /\ mounted
    /\ nextTimerId <= MaxTimers
    /\ \E newTitle \in Titles \ {title} :
        /\ title' = newTitle
        /\ timers' = HandleTitleChange(timers, titleSaveTimer, nextTimerId, newTitle)
    /\ titleSaveTimer' = nextTimerId
    /\ nextTimerId' = nextTimerId + 1
    /\ UNCHANGED <<connVars, handlers, sumState, tagState, isSavingTitle, lastToast,
                   storeVars, mounted, blocks, saveTimerRef, inflight, nextReq, anyFailed, liveBlocksRef, aiPanel, genState, impState>>

\* time passes; a timer that is due runs before more time passes
Tick ==
    /\ timers # {}
    /\ \A t \in timers : t.due > 0
    /\ timers' = {[t EXCEPT !.due = IF t.due > TickMs THEN t.due - TickMs ELSE 0] :
                    t \in timers}
    /\ UNCHANGED <<connVars, handlers, sumState, tagState, isSavingTitle, lastToast,
                   storeVars, mounted, blocks, title, saveTimerRef, titleSaveTimer,
                   nextTimerId, inflight, nextReq, anyFailed,
                   liveBlocksRef, aiPanel, genState, impState>>

\* the Editor's timer runs: onSave(blocks), that is handleEditorSave
FireContentTimer ==
    /\ \E t \in ContentTimers(timers) :
        /\ t.due = 0
        /\ timers' = timers \ {t}
        /\ inflight' = inflight \cup {[seq |-> nextReq, body |-> ContentBody(t.blocks)]}
    /\ nextReq' = nextReq + 1
    /\ UNCHANGED <<connVars, handlers, sumState, tagState, isSavingTitle, lastToast,
                   storeVars, mounted, blocks, title, saveTimerRef, titleSaveTimer,
                   nextTimerId, anyFailed, liveBlocksRef, aiPanel, genState,
                   impState>>

\* the page's title timer runs: updatePage.mutateAsync({ title: newTitle })
FireTitleTimer ==
    /\ \E t \in TitleTimers(timers) :
        /\ t.due = 0
        /\ timers' = timers \ {t}
        /\ inflight' = inflight \cup {[seq |-> nextReq, body |-> TitleBody(t.title)]}
    /\ nextReq' = nextReq + 1
    /\ isSavingTitle' = TRUE
    /\ UNCHANGED <<connVars, handlers, sumState, tagState, lastToast,
                   storeVars, mounted, blocks, title, saveTimerRef, titleSaveTimer,
                   nextTimerId, anyFailed, liveBlocksRef, aiPanel,
                   genState, impState>>

\* the user navigates away: the Editor's cleanup runs; the page component
\* has no cleanup for titleSaveTimer
Unmount ==
    /\ mounted
    /\ mounted' = FALSE
    /\ timers' = ClearTimeout(timers, saveTimerRef)
    /\ UNCHANGED <<connVars, handlers, sumState, tagState, isSavingTitle, lastToast,
                   storeVars, blocks, title, saveTimerRef, titleSaveTimer, nextTimerId,
                   inflight, nextReq, anyFailed, liveBlocksRef,
                   aiPanel, genState, impState>>

\* response.ok: the status is in the range 200-299
ResponseOk(resp) == resp.status >= 200 /\ resp.status <= 299

\* the update request is the one the title timer issues
IsTitleSave(body) == "title" \in body.has

\* the catch blocks of handleTitleChange's timer and of handleEditorSave
SaveFailedToast(body) ==
    IF IsTitleSave(body) THEN "Failed to save title" ELSE "Failed to auto-save content"

\* the catch blocks of the AI handlers: toast.error(err.message), where
\* callAI threw new Error(result.error || "AI request failed")
AiFailedToast(resp) == IF resp.error # "" THEN resp.error ELSE "AI request failed"

\* the update requests in flight after request r got its response: the
\* mutation settles, with no retry option set
MutationSettledRetrying(reqs, r, resp, seq) ==
    IF ResponseOk(resp) THEN reqs \ {r}
    ELSE (reqs \ {r}) \cup {[seq |-> seq, body |-> r.body]}
MutationSettled(reqs, r, resp, seq) == reqs \ {r}

\* the store serves one of the session's update requests, in any order, and
\* the awaiting callback resumes: handleEditorSave, or the title timer's
\* callback with its finally block
ServeUpdate ==
    /\ \E r \in inflight, dbOk \in BOOLEAN :
        LET out == PatchHandler(pages, SessionPage, SessionUser, r.body, dbOk)
        IN  /\ pages' = out.pages
            /\ lastReq' = Req("patch", SessionUser, SessionPage, r.body, dbOk)
            /\ lastResp' = out.resp
            /\ lastOutcome' = NoOutcome
            /\ inflight' = MutationSettled(inflight, r, out.resp, nextReq)
            /\ anyFailed' = (anyFailed \/ out.resp.status # 200)
            /\ lastToast' = IF ResponseOk(out.resp) THEN NoToast
                             ELSE SaveFailedToast(r.body)
            /\ isSavingTitle' = IF IsTitleSave(r.body) THEN FALSE ELSE isSavingTitle
    /\ UNCHANGED <<connVars, handlers, sumState, tagState,
                   nextId, providerCalls, mounted, blocks, title, timers, saveTimerRef,
                   titleSaveTimer, nextTimerId, nextReq, liveBlocksRef, aiPanel, genState, impState>>

\* FloatingAI.handleGenerate up to the request
SubmitGenerate ==
    /\ mounted
    /\ providerCalls < MaxProviderCalls
    /\ \E prompt \in Prompts :
        /\ ~(Trim(prompt) = <<>> \/ genState.pending)
        /\ genState' = [pending |-> TRUE,
                        body |-> AiBody(TRUE, SessionPage,
                                        GetPlainText(liveBlocksRef, pages[SessionPage]),
                                        NotAString, Trim(prompt))]
    /\ UNCHANGED <<connVars, handlers, sumState, tagState, isSavingTitle, lastToast,
                   storeVars, mounted, blocks, title, timers, saveTimerRef,
                   titleSaveTimer, nextTimerId, inflight, nextReq, anyFailed, liveBlocksRef, aiPanel, impState>>

\* POST /ai/generate is served and FloatingAI.handleGenerate resumes:
\* onGenerated(result) is editorRef.current?.insertContent(result)
GenerateResponse ==
    /\ genState.pending
    /\ genState' = NotPending
    /\ \E outcome \in GenOutcomes, cursor \in 1..Len(blocks) :
        LET out == GenerateHandler(pages, genState.body, outcome, TRUE)
            doc == InsertContent(blocks, cursor, out.resp.data.result)
        IN  /\ AiRespond("generate", SessionUser, genState.body,
                      [outcome |-> outcome, dbOk |-> TRUE], out)
            /\ lastToast' = IF ResponseOk(out.resp) THEN NoToast
                             ELSE AiFailedToast(out.resp)
            /\ IF out.resp.success /\ mounted
               THEN /\ Len(doc) <= MaxBlocks
                    /\ OnEditorChange(doc)
               ELSE UNCHANGED <<blocks, liveBlocksRef, timers, saveTimerRef,
                                nextTimerId>>
    /\ UNCHANGED <<connVars, handlers, sumState, tagState, isSavingTitle,
                   nextId, mounted, title, titleSaveTimer, inflight, nextReq,
                   anyFailed, aiPanel, impState>>

\* isAILoading: the three toolbar buttons are disabled while it holds
IsAILoadingSummarizeOnly == sumState.pending
IsAILoading == sumState.pending \/ impState.pending \/ tagState.pending

\* handleSummarize up to the request
SubmitSummarize ==
    /\ mounted
    /\ providerCalls < MaxProviderCalls
    /\ ~IsAILoading
    /\ LET text == GetPlainText(liveBlocksRef, pages[SessionPage])
       IN  IF Trim(text) = <<>>
           THEN /\ lastToast' = "Add some content first before summarizing!"
                /\ UNCHANGED <<sumState, aiPanel>>
           ELSE /\ sumState' = [pending |-> TRUE,
                                body |-> AiBody(TRUE, SessionPage, text, NotAString,
                                                NotAString)]
                /\ aiPanel' = [type |-> "summary", result |-> Null]
                /\ UNCHANGED lastToast
    /\ UNCHANGED <<connVars, handlers, tagState, isSavingTitle,
                   storeVars, mounted, blocks, title, timers, saveTimerRef,
                   titleSaveTimer, nextTimerId, inflight, nextReq, anyFailed,
                   liveBlocksRef, genState, impState>>

\* handleImprove up to the request
SubmitImprove ==
    /\ mounted
    /\ providerCalls < MaxProviderCalls
    /\ ~IsAILoading
    /\ LET text == GetPlainText(liveBlocksRef, pages[SessionPage])
       IN  IF Trim(text) = <<>>
           THEN /\ lastToast' = "Add some content first!"
                /\ UNCHANGED <<impState, aiPanel>>
           ELSE /\ impState' = [pending |-> TRUE,
                                body |-> AiBody(TRUE, SessionPage, text, NotAString,
                                                NotAString)]
                /\ aiPanel' = [type |-> "improve", result |-> Null]
                /\ UNCHANGED lastToast
    /\ UNCHANGED <<connVars, handlers, sumState, tagState, isSavingTitle,
                   storeVars, mounted, blocks, title, timers, saveTimerRef,
                   titleSaveTimer, nextTimerId, inflight, nextReq, anyFailed,
                   liveBlocksRef, genState>>

\* handleGenerateTags up to the request
SubmitTags ==
    /\ mounted
    /\ providerCalls < MaxProviderCalls
    /\ ~IsAILoading
    /\ LET text == GetPlainText(liveBlocksRef, pages[SessionPage])
       IN  IF Trim(text) = <<>>
           THEN /\ lastToast' = "Add some content first!"
                /\ UNCHANGED <<tagState, aiPanel>>
           ELSE /\ tagState' = [pending |-> TRUE,
                                body |-> AiBody(TRUE, SessionPage, text, NotAString,
                                                NotAString)]
                /\ aiPanel' = [type |-> "tags", result |-> Null]
                /\ UNCHANGED lastToast
    /\ UNCHANGED <<connVars, handlers, sumState, isSavingTitle,
                   storeVars, mounted, blocks, title, timers, saveTimerRef,
                   titleSaveTimer, nextTimerId, inflight, nextReq, anyFailed,
                   liveBlocksRef, genState, impState>>

\* setAIPanel after a toolbar request: the result on success, closed on
\* failure
PanelAfter(type, resp) ==
    IF ResponseOk(resp) THEN [type |-> type, result |-> resp.data.result]
    ELSE NoPanel

\* setAIPanel after the improve request: the result on success, closed on failure
ImprovePanel(resp) ==
    IF resp.success THEN [type |-> "improve", result |-> resp.data.result]
    ELSE NoPanel

ImproveResponseInserting ==
    /\ impState.pending
    /\ impState' = NotPending
    /\ \E outcome \in ImpOutcomes :
        LET out == ImproveHandler(pages, impState.body, outcome, TRUE)
        IN  /\ AiRespond("improve", SessionUser, impState.body, [outcome |-> outcome, dbOk |-> TRUE], out)
            /\ aiPanel' = IF mounted THEN ImprovePanel(out.resp) ELSE aiPanel
            /\ lastToast' = IF ResponseOk(out.resp) THEN NoToast
                             ELSE AiFailedToast(out.resp)
            /\ IF out.resp.success /\ mounted
               THEN /\ Len(blocks) < MaxBlocks
                    /\ OnEditorChange(InsertContent(blocks, 1, out.resp.data.result))
               ELSE UNCHANGED <<blocks, liveBlocksRef, timers, saveTimerRef,
                                nextTimerId>>
    /\ UNCHANGED <<connVars, handlers, sumState, tagState, isSavingTitle,
                   nextId, mounted, title, titleSaveTimer, inflight, nextReq,
                   anyFailed, genState>>

\* POST /ai/improve is served and handleImprove resumes: the result goes to
\* the AI panel, which is rendered without an accept handler
ImproveResponse ==
    /\ impState.pending
    /\ impState' = NotPending
    /\ \E outcome \in ImpOutcomes :
        LET out == ImproveHandler(pages, impState.body, outcome, TRUE)
        IN  /\ AiRespond("improve", SessionUser, impState.body, [outcome |-> outcome, dbOk |-> TRUE], out)
            /\ aiPanel' = IF mounted THEN ImprovePanel(out.resp) ELSE aiPanel
            /\ lastToast' = IF ResponseOk(out.resp) THEN NoToast
                             ELSE AiFailedToast(out.resp)
    /\ UNCHANGED <<connVars, handlers, sumState, tagState, isSavingTitle,
                   nextId, mounted, blocks, title, timers, saveTimerRef, titleSaveTimer,
                   nextTimerId, inflight, nextReq, anyFailed,
                   liveBlocksRef, genState>>

SumOutcomes == {Completion(<<"s">>), RateLimitLower}

TagsOutcomes == {Completion(<<"[", "\"", "a", "b", "\"", "]">>), ProviderDown}

\* POST /ai/summarize is served and handleSummarize resumes
SummarizeResponse ==
    /\ sumState.pending
    /\ sumState' = NotPending
    /\ \E outcome \in SumOutcomes :
        LET out == SummarizeHandler(pages, sumState.body, outcome, TRUE)
        IN  /\ AiRespond("summarize", SessionUser, sumState.body,
                         [outcome |-> outcome, dbOk |-> TRUE], out)
            /\ aiPanel' = IF mounted THEN PanelAfter("summary", out.resp) ELSE aiPanel
            /\ lastToast' = IF ResponseOk(out.resp) THEN NoToast
                             ELSE AiFailedToast(out.resp)
    /\ UNCHANGED <<connVars, handlers, tagState, isSavingTitle,
                   nextId, mounted, blocks, title, timers, saveTimerRef, titleSaveTimer,
                   nextTimerId, inflight, nextReq, anyFailed,
                   liveBlocksRef, genState, impState>>

\* POST /ai/tags is served and handleGenerateTags resumes
TagsResponse ==
    /\ tagState.pending
    /\ tagState' = NotPending
    /\ \E outcome \in TagsOutcomes :
        LET out == TagsHandler(pages, tagState.body, outcome, TRUE)
        IN  /\ AiRespond("tags", SessionUser, tagState.body,
                         [outcome |-> outcome, dbOk |-> TRUE], out)
            /\ aiPanel' = IF mounted THEN PanelAfter("tags", out.resp) ELSE aiPanel
            /\ lastToast' = IF ResponseOk(out.resp) THEN NoToast
                             ELSE AiFailedToast(out.resp)
    /\ UNCHANGED <<connVars, handlers, sumState, isSavingTitle,
                   nextId, mounted, blocks, title, timers, saveTimerRef, titleSaveTimer,
                   nextTimerId, inflight, nextReq, anyFailed,
                   liveBlocksRef, genState, impState>>

\* the panel's dismiss button, which is rendered while a request is
\* pending too
DismissPanel ==
    /\ mounted
    /\ aiPanel # NoPanel
    /\ aiPanel' = NoPanel
    /\ UNCHANGED <<connVars, handlers, sumState, tagState, isSavingTitle, lastToast,
                   storeVars, mounted, blocks, title, timers, saveTimerRef,
                   titleSaveTimer, nextTimerId, inflight, nextReq, anyFailed, liveBlocksRef, genState, impState>>

SessionNext ==
    \/ EditorChange
    \/ TitleChange
    \/ Tick
    \/ FireContentTimer
    \/ FireTitleTimer
    \/ Unmount
    \/ ServeUpdate

SessionSpec == SessionInit /\ [][SessionNext]_vars

\* AssistSpec: the same session with the AI panel and the floating generator
AssistNext ==
    \/ EditorChange
    \/ Tick
    \/ FireContentTimer
    \/ ServeUpdate
    \/ SubmitGenerate
    \/ GenerateResponse
    \/ SubmitImprove
    \/ ImproveResponse
    \/ DismissPanel

AssistSpec == SessionInit /\ [][AssistNext]_vars

\* ToolbarSpec: a stored page is opened and edited, with its auto-save and
\* the three AI buttons of the page's action bar
StoredBlocks == <<Para(Rep("a", SummarizeMinLen))>>

ToolbarInit ==
    /\ pages = [i \in PageIds |->
                  [NewPage(OwnerOf(i), Untitled, Null) EXCEPT !.content = StoredBlocks]]
    /\ nextId = MaxPages + 1
    /\ providerCalls = 0
    /\ lastReq = NoReq
    /\ lastResp = Ok(200, NoData)
    /\ lastOutcome = NoOutcome
    /\ mounted = TRUE
    /\ blocks = StoredBlocks
    /\ title = Untitled
    /\ timers = {}
    /\ saveTimerRef = 0
    /\ titleSaveTimer = 0
    /\ nextTimerId = 1
    /\ inflight = {}
    /\ nextReq = 1
    /\ anyFailed = FALSE
    /\ liveBlocksRef = <<>>
    /\ aiPanel = NoPanel
    /\ genState = NotPending
    /\ impState = NotPending
    /\ sumState = NotPending
    /\ tagState = NotPending
    /\ isSavingTitle = FALSE
    /\ lastToast = NoToast
    /\ ConnIdle
    /\ handlers = {}

ToolbarNext ==
    \/ EditorChange
    \/ Tick
    \/ FireContentTimer
    \/ ServeUpdate
    \/ SubmitSummarize
    \/ SummarizeResponse
    \/ SubmitImprove
    \/ ImproveResponse
    \/ SubmitTags
    \/ TagsResponse
    \/ DismissPanel

ToolbarSpec == ToolbarInit /\ [][ToolbarNext]_vars

\* ClickSpec: a stored page is opened and edited and all four AI actions are
\* used before the edits' save timers run
ClickNext ==
    \/ EditorChange
    \/ SubmitSummarize
    \/ SummarizeResponse
    \/ SubmitImprove
    \/ ImproveResponse
    \/ SubmitTags
    \/ TagsResponse
    \/ SubmitGenerate
    \/ GenerateResponse
    \/ DismissPanel

ClickSpec == ToolbarInit /\ [][ClickNext]_vars

---------------------------------------------------------------------------
(* ExtractSpec: the page component asks for the plain text of a block tree  *)
(* the editor holds, for every tree of at most MaxNodes blocks              *)

\* blocks in a tree
MaxNodes == 3

\* a link: an inline item without text of its own, holding inline items
Link(items) == [type |-> "link", content |-> items]

\* what a block may hold as content: nothing (no content property), no
\* item, whitespace only, text, and text followed by a link
BlockContents ==
    { [has |-> FALSE, items |-> <<>>],
      [has |-> TRUE, items |-> <<>>],
      [has |-> TRUE, items |-> <<Inline(<<" ", " ">>)>>],
      [has |-> TRUE, items |-> <<Inline(<<"A">>)>>],
      [has |-> TRUE, items |-> <<Inline(<<"B", " ">>), Link(<<Inline(<<"c">>)>>)>>] }

\* a block without content has no children property either when it is a leaf
MakeBlock(c, kids) ==
    IF c.has THEN [type |-> "paragraph", content |-> c.items, children |-> kids]
    ELSE IF kids = <<>> THEN [type |-> "paragraph"]
    ELSE [type |-> "paragraph", children |-> kids]

RECURSIVE ForestsOf(_)
\* the sequences of block trees with n blocks in all
ForestsOf(n) ==
    IF n = 0 THEN {<<>>}
    ELSE UNION { { <<MakeBlock(c, kids)>> \o rest :
                      c \in BlockContents, kids \in ForestsOf(k - 1),
                      rest \in ForestsOf(n - k) } : k \in 1..n }

BlockForests == UNION {ForestsOf(n) : n \in 0..MaxNodes}

ExtractInit ==
    /\ pages = [i \in PageIds |-> NewPage(OwnerOf(i), Untitled, Null)]
    /\ nextId = MaxPages + 1
    /\ providerCalls = 0
    /\ lastReq = NoReq
    /\ lastResp = Ok(200, NoData)
    /\ lastOutcome = NoOutcome
    /\ mounted = TRUE
    /\ liveBlocksRef \in BlockForests
    /\ blocks = IF liveBlocksRef = <<>> THEN InitBlocks ELSE liveBlocksRef
    /\ title = Untitled
    /\ timers = {}
    /\ saveTimerRef = 0
    /\ titleSaveTimer = 0
    /\ nextTimerId = 1
    /\ inflight = {}
    /\ nextReq = 1
    /\ anyFailed = FALSE
    /\ aiPanel = NoPanel
    /\ genState = NotPending
    /\ impState = NotPending
    /\ sumState = NotPending
    /\ tagState = NotPending
    /\ isSavingTitle = FALSE
    /\ lastToast = NoToast
    /\ ConnIdle
    /\ handlers = {}

ExtractNext ==
    \/ SubmitGenerate
    \/ SubmitImprove

ExtractSpec == ExtractInit /\ [][ExtractNext]_vars

\* the inline text of a block: the texts of its inline items, links opened
InlineTextOf(block) ==
    IF "content" \in DOMAIN block THEN LineText(block) ELSE <<>>

RECURSIVE PreOrder(_)
\* the blocks of a forest, each parent before its children, trees in order
PreOrder(bs) ==
    IF bs = <<>> THEN <<>>
    ELSE <<Head(bs)>>
         \o (IF "children" \in DOMAIN Head(bs) THEN PreOrder(Head(bs).children) ELSE <<>>)
         \o PreOrder(Tail(bs))

HasVisibleText(block) == \E i \in 1..Len(InlineTextOf(block)) : ~IsSpace(InlineTextOf(block)[i])

RECURSIVE NewlineJoined(_)
NewlineJoined(bs) ==
    IF bs = <<>> THEN <<>>
    ELSE IF Len(bs) = 1 THEN InlineTextOf(bs[1])
    ELSE InlineTextOf(bs[1]) \o <<"\n">> \o NewlineJoined(Tail(bs))

---------------------------------------------------------------------------
(* Claims about the editing session *)

\* the update request issued by this step, if the step issued one
Issued(r) == r \in inflight' /\ r.seq = nextReq /\ nextReq' = nextReq + 1

\* C4: at most one content timer is pending and it holds the blocks of the
\* last change; when it runs, a full quiet interval after that change, one
\* update request is issued carrying those blocks and no content timer is
\* left, so a burst of changes yields exactly one save, of its last state
C4_DebounceCoalescing ==
    /\ [](/\ Cardinality(ContentTimers(timers)) <= 1
          /\ \A t \in ContentTimers(timers) : t.blocks = blocks)
    /\ [][\A r \in inflight' :
            (Issued(r) /\ r.body.has = {"content"})
                => /\ r.body = ContentBody(blocks)
                   /\ \E t \in ContentTimers(timers) : t.due = 0
                   /\ ContentTimers(timers') = {}
                   /\ Cardinality(inflight') = Cardinality(inflight) + 1]_vars

\* two editor changes in one burst (and no title change) led to one save,
\* which carries the document after the second change
C4_Witness ==
    /\ mounted
    /\ titleSaveTimer = 0
    /\ nextTimerId = 3
    /\ timers = {}
    /\ blocks = <<Para(Word), Para(Word)>>
    /\ inflight = {[seq |-> 1, body |-> ContentBody(blocks)]}
    /\ nextReq = 2

\* C5: the value a debounce timer passes to the store update when it runs is
\* the in-memory state at that moment: the editor's blocks for the content
\* timer, the title for the title timer
C5_FireTimeValue ==
    [][\A r \in inflight' :
        Issued(r) => r.body = IF "content" \in r.body.has THEN ContentBody(blocks)
                              ELSE TitleBody(title)]_vars

\* the title timer ran after the title was changed twice and the document
\* was edited
C5_Witness ==
    /\ title = Untitled
    /\ titleSaveTimer = 2
    /\ \E r \in inflight : r.body = TitleBody(Untitled)
    /\ timers = {}
    /\ nextTimerId = 3

\* the user stopped editing, the session is mounted, and every update
\* request of the session has completed successfully
Quiescent ==
    /\ mounted
    /\ saveTimerRef # 0
    /\ ContentTimers(timers) = {}
    /\ \A r \in inflight : "content" \notin r.body.has
    /\ ~anyFailed

\* C6: once the user has stopped editing and every update request has
\* completed successfully, the stored content is the editor's last blocks
\* (nothing further changes the stored content from such a state)
C6_LastEditPersisted ==
    Quiescent => pages[SessionPage].content = blocks

\* C7: after the page is unmounted no update request is issued
C7_TeardownCancels ==
    [][~mounted => nextReq' = nextReq]_vars

---------------------------------------------------------------------------
(* Claims about AI output in the session *)

\* characters that only the provider's completions contain
AiChars == {"g", "i"}

HasAiText(block) ==
    \E j \in 1..Len(block.content) :
        \E k \in 1..Len(block.content[j].text) : block.content[j].text[k] \in AiChars

AiBlocks(doc) == Cardinality({i \in 1..Len(doc) : HasAiText(doc[i])})

GenerateReturns == genState.pending /\ ~genState'.pending
ImproveReturns == impState.pending /\ ~impState'.pending

---------------------------------------------------------------------------
(* ConnSpec: connectDB called MaxConnectors times in the process, each call  *)
(* suspended at its await while other calls run                             *)

\* connectDB from its entry to the await, or to the return of the cached
\* connection
ConnectDBEnter ==
    \E c \in Connectors :
        /\ connectors[c].pc = "idle"
        /\ IF cached.conn # 0
           THEN /\ connectors' = [connectors EXCEPT
                                     ![c] = [pc |-> "returned", promise |-> 0,
                                             result |-> cached.conn]]
                /\ UNCHANGED <<cached, promises>>
           ELSE LET started == StartConnect(cached, promises)
                IN  /\ cached' = started.cached
                    /\ promises' = started.promises
                    /\ connectors' = [connectors EXCEPT
                                         ![c] = [pc |-> "await",
                                                 promise |-> started.cached.promise,
                                                 result |-> 0]]
        /\ UNCHANGED <<storeVars, sessionVars, handlers>>

\* mongoose.connect settles: the connection is open, or the attempt failed
ConnectSettles ==
    \E k \in 1..Len(promises), state \in {"fulfilled", "rejected"} :
        /\ promises[k] = "pending"
        /\ promises' = [promises EXCEPT ![k] = state]
        /\ UNCHANGED <<storeVars, sessionVars, cached, connectors, handlers>>

\* connectDB after its await: cached.conn = the connection and return it,
\* or the catch block
ConnectDBResume ==
    \E c \in Connectors :
        /\ connectors[c].pc = "await"
        /\ promises[connectors[c].promise] # "pending"
        /\ IF promises[connectors[c].promise] = "fulfilled"
           THEN /\ cached' = [cached EXCEPT !.conn = HandleOf(connectors[c].promise)]
                /\ connectors' = [connectors EXCEPT
                                     ![c] = [pc |-> "returned", promise |-> 0,
                                             result |-> HandleOf(connectors[c].promise)]]
           ELSE /\ cached' = [cached EXCEPT !.promise = 0]
                /\ connectors' = [connectors EXCEPT
                                     ![c] = [pc |-> "threw", promise |-> 0, result |-> 0]]
        /\ UNCHANGED <<storeVars, sessionVars, promises, handlers>>

ConnNext ==
    \/ ConnectDBEnter
    \/ ConnectSettles
    \/ ConnectDBResume

ConnSpec == Init /\ [][ConnNext]_vars

\* some connection attempt has failed
SomeAttemptFailed == \E k \in 1..Len(promises) : promises[k] = "rejected"

Returned == {c \in Connectors : connectors[c].pc = "returned"}

\* C24: as long as no connection attempt has failed, mongoose.connect has
\* been called at most once and every connectDB call that returned, returned
\* the connection that call opened
C24_InitializeOnce ==
    ~SomeAttemptFailed =>
        /\ Len(promises) <= 1
        /\ \A c \in Returned : connectors[c].result = HandleOf(1)
        /\ cached.conn \in {0, HandleOf(1)}

\* every call has returned and a single attempt was made
C24_Witness ==
    /\ ~SomeAttemptFailed
    /\ Len(promises) = 1
    /\ Returned = Connectors

---------------------------------------------------------------------------
(* RaceSpec: the owner's requests on one page served concurrently.  A       *)
(* handler that awaits between two store operations (the toggles: findOne,  *)
(* then save) or between its start and its store operation (summarize and   *)
(* tags: the provider call, then findByIdAndUpdate) is suspended there      *)
(* while other requests run; PATCH and DELETE make one store operation.     *)

\* requests the server starts
MaxHandlers == 2

\* a started request: its number, route and position, the body it carries,
\* the document it holds (existingPage) with the paths it modified, and its
\* response once it has answered
Handler(n, route, pc, body, doc, modified, resp) ==
    [n |-> n, route |-> route, pc |-> pc, body |-> body, doc |-> doc,
     modified |-> modified, resp |-> resp]

Answered(n, route, body, resp) == Handler(n, route, "done", body, NoPage, {}, resp)

\* the assignments of a toggle route to the document it read
Toggled(route, existingPage) ==
    IF route = "favorite"
    THEN [existingPage EXCEPT !.isFavorite = ~existingPage.isFavorite]
    ELSE [existingPage EXCEPT !.isArchived = ~existingPage.isArchived,
                              !.isFavorite = IF ~existingPage.isArchived THEN FALSE
                                             ELSE existingPage.isFavorite]

\* the paths mongoose marks modified: those assigned a different value
ModifiedPaths(before, after) == {f \in PageFields : before[f] # after[f]}

ToggleFailure(route) ==
    IF route = "favorite" THEN Fail(500, "Failed to toggle favorite")
    ELSE Fail(500, "Failed to archive page")

\* the data a toggle route returns
ToggleData(route, doc) ==
    IF route = "favorite" THEN [isFavorite |-> doc.isFavorite]
    ELSE [isArchived |-> doc.isArchived]

\* existingPage.save(): updateOne({ _id }, { $set: the modified paths })
Save(ps, id, doc, modified) ==
    IF Exists(ps, id)
    THEN [ps EXCEPT ![id] = [f \in PageFields |-> IF f \in modified THEN doc[f] ELSE @[f]]]
    ELSE ps

\* what save() does when the update matches no document: it rejects
\* (DocumentNotFoundError) or resolves, by the mongoose version
SaveOnMissing == {"rejects", "resolves"}

NextHandler == Cardinality(handlers) + 1

\* a toggle route from its start to await existingPage.save()
StartToggle ==
    \E route \in {"favorite", "archive"}, dbOk \in BOOLEAN :
        /\ NextHandler <= MaxHandlers
        /\ LET existingPage == FindOne(pages, SessionPage, SessionUser)
               req == Req(route, SessionUser, SessionPage, NoBody, dbOk)
           IN  IF ~dbOk \/ existingPage = NoPage
               THEN LET resp == IF ~dbOk THEN ToggleFailure(route) ELSE NotFound
                    IN  /\ handlers' = handlers \cup {Answered(NextHandler, route, NoBody, resp)}
                        /\ Respond(req, Outcome(pages, resp))
                        /\ UNCHANGED <<nextId, providerCalls>>
               ELSE /\ handlers' = handlers \cup
                            {Handler(NextHandler, route, "save", NoBody,
                                     Toggled(route, existingPage),
                                     ModifiedPaths(existingPage, Toggled(route, existingPage)),
                                     NotFound)}
                    /\ UNCHANGED storeVars
        /\ UNCHANGED <<sessionVars, connVars>>

\* the toggle route from the save to its response
FinishToggle ==
    \E h \in handlers, missing \in SaveOnMissing :
        /\ h.pc = "save"
        /\ LET rejected == ~Exists(pages, SessionPage) /\ missing = "rejects"
               resp == IF rejected THEN ToggleFailure(h.route)
                       ELSE Ok(200, ToggleData(h.route, h.doc))
           IN  /\ handlers' = (handlers \ {h}) \cup
                       {Handler(h.n, h.route, "done", NoBody, h.doc, h.modified, resp)}
               /\ Respond(Req(h.route, SessionUser, SessionPage, NoBody, TRUE),
                          Outcome(Save(pages, SessionPage, h.doc, h.modified), resp))
        /\ UNCHANGED <<nextId, providerCalls, sessionVars, connVars>>

\* the bodies of the session's saves: the editor's blocks, the title
SaveBodies == {ContentBody(<<Para(Word)>>), TitleBody(T1)}

\* PATCH /pages/:id
RacePatch ==
    \E body \in SaveBodies, dbOk \in BOOLEAN :
        /\ NextHandler <= MaxHandlers
        /\ LET out == PatchHandler(pages, SessionPage, SessionUser, body, dbOk)
           IN  /\ handlers' = handlers \cup {Answered(NextHandler, "patch", body, out.resp)}
               /\ Respond(Req("patch", SessionUser, SessionPage, body, dbOk), out)
        /\ UNCHANGED <<nextId, providerCalls, sessionVars, connVars>>

\* DELETE /pages/:id
RaceDelete ==
    \E dbOk \in BOOLEAN :
        /\ NextHandler <= MaxHandlers
        /\ LET out == DeleteHandler(pages, SessionPage, SessionUser, dbOk)
           IN  /\ handlers' = handlers \cup {Answered(NextHandler, "delete", NoBody, out.resp)}
               /\ Respond(Req("delete", SessionUser, SessionPage, NoBody, dbOk), out)
        /\ UNCHANGED <<nextId, providerCalls, sessionVars, connVars>>

\* POST /ai/summarize or /ai/tags from its start to the provider call
StartAi ==
    \E route \in {"summarize", "tags"} :
        /\ NextHandler <= MaxHandlers
        /\ handlers' = handlers \cup
                {Handler(NextHandler, route, "provider",
                         PassingBody(IF route = "summarize" THEN SummarizeMinLen
                                     ELSE TagsMinLen),
                         NoPage, {}, NotFound)}
        /\ UNCHANGED <<storeVars, sessionVars, connVars>>

\* the AI route from the provider's answer to its response
FinishAi ==
    \E h \in handlers :
        /\ h.pc = "provider"
        /\ \E env \in Envs(IF h.route = "summarize" THEN TextOutcomes ELSE TagOutcomes) :
            LET out == IF h.route = "summarize"
                       THEN SummarizeHandler(pages, h.body, env.outcome, env.dbOk)
                       ELSE TagsHandler(pages, h.body, env.outcome, env.dbOk)
            IN  /\ AiRespond(h.route, SessionUser, h.body, env, out)
                /\ handlers' = (handlers \ {h}) \cup {Answered(h.n, h.route, h.body, out.resp)}
        /\ UNCHANGED <<nextId, sessionVars, connVars>>

RaceNext ==
    \/ StartToggle
    \/ FinishToggle
    \/ RacePatch
    \/ RaceDelete
    \/ StartAi
    \/ FinishAi

RaceSpec == AiInit /\ [][RaceNext]_vars

Done(h) == h.pc = "done"

\* the content saves and the AI writes that have answered with success
ContentSaves ==
    {h \in handlers : h.route = "patch" /\ Done(h) /\ h.resp.success
                       /\ "content" \in h.body.has}
AiWrites ==
    {h \in handlers : h.route \in {"summarize", "tags"} /\ Done(h) /\ h.resp.success}

\* C21: once a content save and a summarize or tags request on the same
\* document have both completed, in whichever order the store applied them,
\* the document holds the content the save sent and the summary or tags the
\* AI route returned
C21_DisjointFields ==
    \A p \in ContentSaves, a \in AiWrites :
        Exists(pages, SessionPage) =>
            /\ pages[SessionPage].content = p.body.val.content
            /\ pages[SessionPage][PersistedField(a.route)] = a.resp.data.result

\* the AI request started first, the content save was applied while it
\* waited for the provider, and its write came last
C21_Witness ==
    \E p \in ContentSaves, a \in AiWrites :
        /\ a.n < p.n
        /\ lastReq.route = a.route
        /\ Exists(pages, SessionPage)
        /\ pages[SessionPage].content # <<>>

\* C27: a deleted document never exists again, and a PATCH or toggle that
\* answers when the document is gone (the database reachable) answers 404
C27_NoResurrection ==
    /\ [](lastReq.route \in {"patch", "favorite", "archive"}
            /\ lastReq.dbOk /\ ~Exists(pages, SessionPage)
          => lastResp.status = 404)
    /\ [][~Exists(pages, SessionPage) => ~Exists(pages', SessionPage)]_vars

Toggles == {h \in handlers : h.route \in {"favorite", "archive"}}

Flags(doc) == <<doc.isFavorite, doc.isArchived>>

\* the flags after two toggles applied one after the other to a new page
OneAfterTheOther(first, second) ==
    Flags(Toggled(second, Toggled(first, NewPage(SessionUser, Untitled, Null))))

\* C28: when two toggle requests on the document have both succeeded, the
\* stored flags are those of the two toggles applied one after the other in
\* some order, and each request returned the value it stored
C28_TogglesNotLost ==
    \A h1 \in Toggles, h2 \in Toggles :
        (/\ h1.n < h2.n
         /\ Cardinality(Toggles) = 2
         /\ Done(h1) /\ h1.resp.success
         /\ Done(h2) /\ h2.resp.success
         /\ Exists(pages, SessionPage))
        => /\ Flags(pages[SessionPage]) \in {OneAfterTheOther(h1.route, h2.route),
                                              OneAfterTheOther(h2.route, h1.route)}
           /\ h1.resp.data = ToggleData(h1.route, h1.doc)
           /\ h2.resp.data = ToggleData(h2.route, h2.doc)

---------------------------------------------------------------------------
(* Claims about the /ai routes when the store write fails *)

\* the last request called the provider and got a result it can use: a
\* summary that is not blank, or a raw output from which tags are extracted
UsableResult ==
    /\ lastOutcome.kind = "text"
    /\ lastOutcome.text # Null
    /\ IF lastReq.route = "summarize" THEN Trim(lastOutcome.text) # <<>>
       ELSE ParseTags(Trim(lastOutcome.text)) # <<>>

\* the last request was a summarize or tags request whose provider call gave
\* a usable result and whose store write (connectDB or the update) threw
WriteFailedAfterResult ==
    /\ lastReq.route \in {"summarize", "tags"}
    /\ ~lastReq.dbOk
    /\ UsableResult

\* C23: a summarize or tags request that got a usable result from the
\* provider and whose store write failed is answered 500 with success false
\* and without the result
C23_WriteFailureIs500 ==
    WriteFailedAfterResult =>
        /\ lastResp.status = 500
        /\ ~lastResp.success
        /\ lastResp.data = NoData

C23_Witness ==
    /\ WriteFailedAfterResult
    /\ lastReq.route = "tags"
    /\ lastResp = Fail(500, "Failed to generate tags")

---------------------------------------------------------------------------
(* Claims about the session's save timers *)

\* C25 as stated: an open session has at most one pending save timer
C25_OnePendingTimer == mounted => Cardinality(timers) <= 1

\* C25: a session has at most one pending content-save timer and at most
\* one pending title-save timer, and every change of the blocks or of the
\* title leaves, as the pending timer of its kind, the one armed by that
\* change, due a full quiet interval later
C25_OneTimerPerKind ==
    /\ [](/\ Cardinality(ContentTimers(timers)) <= 1
          /\ Cardinality(TitleTimers(timers)) <= 1)
    /\ [][blocks' # blocks =>
             ContentTimers(timers') =
                 {Timer(saveTimerRef', "content", DebounceMs, blocks', <<>>)}]_vars
    /\ [][title' # title =>
             TitleTimers(timers') =
                 {Timer(titleSaveTimer', "title", TitleDebounceMs, <<>>, title')}]_vars

\* a second edit has replaced the timer of the first before it ran
C25_Witness ==
    /\ mounted
    /\ titleSaveTimer = 0
    /\ nextReq = 1
    /\ \E t \in ContentTimers(timers) : t.id = 2 /\ t.due = DebounceMs
    /\ Cardinality(timers) = 1

---------------------------------------------------------------------------
(* Claims about what the page shows while requests are pending *)

\* the title update requests that have not completed
PendingTitleSaves == {r \in inflight : IsTitleSave(r.body)}

\* C30: while the page is shown, isSavingTitle is true exactly when a title
\* update request issued by the title timer has not yet completed, also
\* when a second title save is issued while an earlier one is pending
C30_IndicatorTracksTitleSaves ==
    mounted => (isSavingTitle <=> PendingTitleSaves # {})

\* the toolbar mutations and the panel type each one shows
ToolbarTypes == {"summary", "improve", "tags"}

MutationOf(type) ==
    CASE type = "summary" -> sumState
      [] type = "improve" -> impState
      [] type = "tags" -> tagState

PendingTypes == {type \in ToolbarTypes : MutationOf(type).pending}

\* C29: at most one of summarize, improve and generate-tags is pending, and
\* a toolbar request is started only while none is pending; when a toolbar
\* request returns to the mounted page, the panel is {type: null, result:
\* null} after a failure and has the type of that request after a success
C29_OneToolbarRequest ==
    /\ [](Cardinality(PendingTypes) <= 1)
    /\ [][\A type \in ToolbarTypes :
            /\ (type \in PendingTypes' \ PendingTypes) => PendingTypes = {}
            /\ (type \in PendingTypes \ PendingTypes' /\ mounted) =>
                    IF ResponseOk(lastResp')
                    THEN aiPanel'.type = type
                    ELSE aiPanel' = NoPanel]_vars

\* generate-tags was clicked after an edit and completed: the panel shows
\* its result and the buttons are enabled again
C29_Witness ==
    /\ lastReq.route = "tags"
    /\ lastReq.body.content = ExtractTextFromBlocks(<<Para(Word), Para(Word)>>)
    /\ lastResp.success
    /\ PendingTypes = {}
    /\ aiPanel = [type |-> "tags", result |-> lastResp.data.result]

---------------------------------------------------------------------------
(* Claims about the text the AI requests carry *)

\* the editor has reported a change in this session: Editor.handleChange
\* has run
ChangeReported == saveTimerRef # 0

\* the extraction of the editor's current blocks once a change was
\* reported, and of the fetched page's content before that
ClickText ==
    IF ChangeReported THEN ExtractTextFromBlocks(blocks)
    ELSE ExtractTextFromBlocks(pages[SessionPage].content)

\* the mutations whose request starts in this step
Clicked ==
    {m \in {"summarize", "improve", "tags", "generate"} :
        CASE m = "summarize" -> ~sumState.pending /\ sumState'.pending
          [] m = "improve" -> ~impState.pending /\ impState'.pending
          [] m = "tags" -> ~tagState.pending /\ tagState'.pending
          [] m = "generate" -> ~genState.pending /\ genState'.pending}

\* the request body of a mutation after this step
ClickedBody(m) ==
    CASE m = "summarize" -> sumState'.body
      [] m = "improve" -> impState'.body
      [] m = "tags" -> tagState'.body
      [] m = "generate" -> genState'.body

\* C26: the content sent with a summarize, improve, tags or generate
\* request is the extraction of the editor's blocks at the click once the
\* editor has reported a change in the session, and the extraction of the
\* fetched content only before that
C26_LiveEditorText ==
    [][\A m \in Clicked : ClickedBody(m).content = ClickText]_vars

\* after an edit that is not saved, a generate request and a tags request
\* are pending with the text of the edited blocks, which the store does
\* not hold
C26_Witness ==
    /\ ChangeReported
    /\ genState.pending
    /\ tagState.pending
    /\ genState.body.content = ExtractTextFromBlocks(blocks)
    /\ tagState.body.content = ExtractTextFromBlocks(blocks)
    /\ pages[SessionPage].content # blocks

---------------------------------------------------------------------------
(* Claims about retries *)

\* the update requests that complete in this step
Completed == inflight \ inflight'

\* the toolbar requests that return in this step
Returning == PendingTypes \ PendingTypes'

====
